---- MODULE Spec2Model ----
(***************************************************************************)
(* A model of the data-labelling agent: the Batch Orchestrator             *)
(* (src/src/lib/labelingAgent.ts), the POST /api/label request handler     *)
(* (src/unnamed/part_000, handleLabelingRequest) and the client hook       *)
(* useLabelingService (src/src/hooks/useLabelingService.ts) with its       *)
(* Coverage Enhancer, Reasoning Backfill and updateLabel.                  *)
(*                                                                         *)
(* Strings are TLA+ strings, taken apart with Len and SubSeq.  A JSON      *)
(* value the model returned is a record [k, s, n]: k is its JavaScript     *)
(* kind ("undef", "str" or "num"), s its text, n its number.               *)
(***************************************************************************)
EXTENDS Integers, Sequences, FiniteSets, TLC

\* ------------------------------------------------------------------ bounds

\* Longest item list handed directly to labelDataBatch.
MaxItems == 6

\* Longest item list labelled one item per chunk with a backend that may answer
\* anything.
MaxItemsOneByOne == 3

\* Longest item list the hook's labelData is called with.
MaxHookItems == 2

\* Most updateLabel calls after a run.
MaxEdits == 1

\* Longest result list postProcessResults is applied to on its own.
MaxResults == 3

\* Most passes of postProcessResults over its own value.
MaxPasses == 2

\* Latest reading of the clock (Date.now()), in milliseconds after the first.
MaxClock == 2

\* Most Session Store operations in a row.
MaxStoreOps == 3

\* Longest result list exported to CSV.
MaxCsvRows == 3

\* Longest item list split into chunks on its own.
MaxSplitItems == 11

\* Largest batchSize an item list is split with on its own.
MaxSplitBatchSize == 6

\* The largest number of items of a dataset whose Reasoning Backfill is run alone.
MaxBackfillItems == 2

\* The largest number of items uploaded into the DataLabeler.
MaxLabelerItems == 2

\* The largest number of labelling runs one DataLabeler starts.
MaxRuns == 2

\* The largest number of label edits between two runs, and in one ProjectViewer.
MaxLabelEdits == 2

\* ------------------------------------------------------- program constants

ReviewThreshold == 70
DefaultConfidence == 75
SmallDatasetMax == 5
ApiBatchSize == 5
MaxDataLength == 100

\* ------------------------------------------------------------ JavaScript strings

Range(f) == {f[i] : i \in DOMAIN f}

CharAt(s, i) == SubSeq(s, i, i)

UpperCase == "ABCDEFGHIJKLMNOPQRSTUVWXYZ"

LowerCase == "abcdefghijklmnopqrstuvwxyz"

LowerChar(c) ==
  IF \E i \in 1..Len(UpperCase) : CharAt(UpperCase, i) = c
  THEN CharAt(LowerCase, CHOOSE i \in 1..Len(UpperCase) : CharAt(UpperCase, i) = c)
  ELSE c

RECURSIVE ToLowerCase(_)
ToLowerCase(s) ==
  IF Len(s) = 0 THEN "" ELSE LowerChar(CharAt(s, 1)) \o ToLowerCase(SubSeq(s, 2, Len(s)))

\* String.prototype.includes
Includes(s, sub) ==
  \E i \in 1..(Len(s) + 1) : i + Len(sub) - 1 <= Len(s) /\ SubSeq(s, i, i + Len(sub) - 1) = sub

IsSpace(c) == c = " "

RECURSIVE TrimStart(_)
TrimStart(s) ==
  IF Len(s) > 0 /\ IsSpace(CharAt(s, 1)) THEN TrimStart(SubSeq(s, 2, Len(s))) ELSE s

RECURSIVE TrimEnd(_)
TrimEnd(s) ==
  IF Len(s) > 0 /\ IsSpace(CharAt(s, Len(s))) THEN TrimEnd(SubSeq(s, 1, Len(s) - 1)) ELSE s

\* String.prototype.trim
Trim(s) == TrimEnd(TrimStart(s))

\* s.indexOf(":", i), 0 when there is none.
RECURSIVE ColonFrom(_, _)
ColonFrom(s, i) ==
  IF i > Len(s) THEN 0 ELSE IF CharAt(s, i) = ":" THEN i ELSE ColonFrom(s, i + 1)

\* Position of the first ":" of s, 0 when there is none.
FirstColon(s) == ColonFrom(s, 1)

\* s.split(":"): always at least one part.
RECURSIVE SplitColon(_)
SplitColon(s) ==
  LET c == FirstColon(s)
  IN IF c = 0 THEN <<s>>
     ELSE <<SubSeq(s, 1, c - 1)>> \o SplitColon(SubSeq(s, c + 1, Len(s)))

\* label.split(":").map((part) => part.trim())
TrimmedParts(s) == LET parts == SplitColon(s) IN [i \in 1..Len(parts) |-> Trim(parts[i])]

\* label.split(":")[0].trim()
LabelPrefix(s) ==
  LET c == FirstColon(s) IN Trim(IF c = 0 THEN s ELSE SubSeq(s, 1, c - 1))

\* ------------------------------------------------------------ JSON values

Undef == [k |-> "undef", s |-> "", n |-> 0]

JStr(x) == [k |-> "str", s |-> x, n |-> 0]

JNum(x) == [k |-> "num", s |-> "", n |-> x]

\* JavaScript truthiness of a JSON value.
Truthy(v) == (v.k = "str" /\ v.s # "") \/ (v.k = "num" /\ v.n # 0)

\* ------------------------------------------------------------ LabelResult

\* The LabelResult of labelingAgent.ts, with the optional needsLLMReasoning flag the
\* Coverage Enhancer adds (FALSE when absent) and "" for an absent
\* uncertaintyExplanation.
MkResult(id, label, confidence, reasoning, uncertainty, review, backfill) ==
  [itemId |-> id, label |-> label, confidence |-> confidence, reasoning |-> reasoning,
   uncertaintyExplanation |-> uncertainty, needsReview |-> review,
   needsLLMReasoning |-> backfill]

ErrorLabel == "Error: Needs Manual Review"

\* The fallback of labelDataItem's catch block.
ItemFallback(id, msg) ==
  MkResult(id, ErrorLabel, 0, "item error: " \o msg,
           "This item requires manual labeling due to processing errors.", TRUE, FALSE)

\* The fallback of labelDataBatch's catch block.
BatchFallback(id, msg) ==
  MkResult(id, ErrorLabel, 0, "batch error: " \o msg,
           "This item requires manual labeling due to batch processing errors.", TRUE, FALSE)

\* The result of evaluating code that may throw: a value or the error's message.
Ok(v) == [threw |-> FALSE, err |-> "", val |-> v]

Throw(msg) == [threw |-> TRUE, err |-> msg, val |-> ""]

\* ------------------------------------------------------------ Label Repair

\* labelDataItem and labelDataBatch name a variable labelCategories that neither
\* declares nor receives (the categories are intent.labelCategories): evaluating it
\* raises a ReferenceError.
LabelCategoriesInScope == FALSE

\* labelCategories.find((cat) => cat.toLowerCase().includes(part.toLowerCase())):
\* the index of the first match, 0 for undefined.
FindCategory(cats, part) ==
  IF \E i \in 1..Len(cats) : Includes(ToLowerCase(cats[i]), ToLowerCase(part))
  THEN CHOOSE i \in 1..Len(cats) :
         /\ Includes(ToLowerCase(cats[i]), ToLowerCase(part))
         /\ \A j \in 1..(i - 1) : ~Includes(ToLowerCase(cats[j]), ToLowerCase(part))
  ELSE 0

\* The label repair block, the same text in both inference paths.  label is
\* result.label || "": a truthy value that is no string has no split method.
RepairLabel(raw, cats) ==
  IF raw.k = "num" /\ raw.n # 0 THEN Throw("label.split is not a function")
  ELSE LET label == IF Truthy(raw) THEN raw.s ELSE ""
           parts == TrimmedParts(label)
       IN IF Len(parts) = 2 /\ parts[1] = parts[2]
          THEN IF ~LabelCategoriesInScope THEN Throw("labelCategories is not defined")
               ELSE IF FindCategory(cats, parts[1]) # 0
                    THEN Ok(Trim(SplitColon(cats[FindCategory(cats, parts[1])])[1])
                            \o ": " \o parts[2])
                    ELSE Ok(label)
          ELSE Ok(label)

\* typeof result.confidence === "number" ? result.confidence : 75
ConfidenceOf(obj) == IF obj.confidence.k = "num" THEN obj.confidence.n ELSE DefaultConfidence

\* A review threshold that leaves out the values just below 70.
NeedsReviewBelowSixty(confidence) == confidence < 60

\* const needsReview = confidence < 70
NeedsReviewOf(confidence) == confidence < ReviewThreshold

\* The reasoning block: a missing or blank reasoning becomes the templated sentence;
\* a truthy value that is no string has no trim method.
ReasoningOf(obj) ==
  IF obj.reasoning.k = "num" /\ obj.reasoning.n # 0
  THEN Throw("reasoning.trim is not a function")
  ELSE IF ~Truthy(obj.reasoning) \/ Len(Trim(obj.reasoning.s)) = 0
       THEN Ok("templated")
       ELSE Ok(obj.reasoning.s)

\* ------------------------------------------------------------ inference outcomes

\* What one env.AI.run call comes to: "throw" (the call rejects), "nomatch" (the
\* text holds no JSON match), "badjson" (JSON.parse throws), "json" (obj is the
\* parsed object of the single path, arr the parsed array of the batch path; an
\* entry of arr is null or an object).
Outcome(kind, obj, arr) == [kind |-> kind, obj |-> obj, arr |-> arr]

ModelObj(label, confidence, reasoning, uncertainty) ==
  [label |-> label, confidence |-> confidence, reasoning |-> reasoning,
   uncertainty_explanation |-> uncertainty]

NoObj == ModelObj(Undef, Undef, Undef, Undef)

NoOutcome == Outcome("none", NoObj, <<>>)

Entry(obj) == [null |-> FALSE, obj |-> obj]

NullEntry == [null |-> TRUE, obj |-> NoObj]

FailureMessage(kind) ==
  CASE kind = "throw" -> "AI unavailable"
    [] kind = "nomatch" -> "Failed to parse AI response"
    [] kind = "badjson" -> "Unexpected token"
    [] OTHER -> ""

\* ------------------------------------------------------------ labelDataItem

\* The try block of labelDataItem after JSON.parse.
ItemFromObject(id, obj, cats) ==
  LET label == RepairLabel(obj.label, cats)
      reasoning == ReasoningOf(obj)
  IN IF label.threw THEN Throw(label.err)
     ELSE IF reasoning.threw THEN Throw(reasoning.err)
     ELSE Ok(MkResult(id, label.val, ConfidenceOf(obj), reasoning.val,
                      obj.uncertainty_explanation.s,
                      NeedsReviewOf(ConfidenceOf(obj)), FALSE))

\* labelDataItem: every exception of the try block ends in the fallback result.
labelDataItem(id, out, cats) ==
  IF out.kind # "json" THEN ItemFallback(id, FailureMessage(out.kind))
  ELSE LET r == ItemFromObject(id, out.obj, cats)
       IN IF r.threw THEN ItemFallback(id, r.err) ELSE r.val

\* ------------------------------------------------------------ labelDataBatch

\* The callback of batch.forEach for one item: reasoning, confidence, label.
EntryResult(id, obj, cats) ==
  LET reasoning == ReasoningOf(obj)
      label == RepairLabel(obj.label, cats)
  IN IF reasoning.threw THEN Throw(reasoning.err)
     ELSE IF label.threw THEN Throw(label.err)
     ELSE Ok(MkResult(id, label.val, ConfidenceOf(obj), reasoning.val,
                      obj.uncertainty_explanation.s,
                      ConfidenceOf(obj) < ReviewThreshold, FALSE))

\* batchResults[index]: undefined past the end of the array.
EntryAt(arr, i) == IF i <= Len(arr) THEN arr[i] ELSE NullEntry

\* batch.forEach over the items from position i on: the results it pushes, and
\* whether it threw (the results pushed before the throw stay in the list).
RECURSIVE MapChunk(_, _, _, _)
MapChunk(chunk, arr, cats, i) ==
  IF i > Len(chunk) THEN [pushed |-> <<>>, threw |-> FALSE, err |-> ""]
  ELSE IF EntryAt(arr, i).null THEN MapChunk(chunk, arr, cats, i + 1)
  ELSE LET r == EntryResult(chunk[i], EntryAt(arr, i).obj, cats)
       IN IF r.threw THEN [pushed |-> <<>>, threw |-> TRUE, err |-> r.err]
          ELSE LET rest == MapChunk(chunk, arr, cats, i + 1)
               IN [pushed |-> <<r.val>> \o rest.pushed, threw |-> rest.threw,
                   err |-> rest.err]

\* The catch block of labelDataBatch: one fallback per item of the chunk.
ChunkFallbacks(chunk, msg) == [i \in 1..Len(chunk) |-> BatchFallback(chunk[i], msg)]

\* A catch block that reports the exception and throws it again.
OnChunkErrorRethrown(chunk, pushed, msg) ==
  [pushed |-> pushed, failed |-> TRUE, escaped |-> TRUE]

\* The catch block of the chunk loop: the results pushed before the exception stay,
\* one fallback per item of the chunk is appended, and the loop goes on.
OnChunkError(chunk, pushed, msg) ==
  [pushed |-> pushed \o ChunkFallbacks(chunk, msg), failed |-> TRUE, escaped |-> FALSE]

\* Whether the single-item path ended in its fallback.
ItemFailed(out, cats) == out.kind # "json" \/ ItemFromObject("", out.obj, cats).threw

\* if (batch.length === 1): labelDataItem, else the batch prompt.
PathOf(chunk) == IF Len(chunk) = 1 THEN "single" ELSE "batch"

\* One iteration of the chunk loop, given the outcome of its inference call: the
\* results appended, whether the chunk failed, and whether an exception escaped
\* the loop.
ProcessChunk(chunk, out, cats) ==
  IF PathOf(chunk) = "single"
  THEN [pushed |-> <<labelDataItem(chunk[1], out, cats)>>,
        failed |-> ItemFailed(out, cats), escaped |-> FALSE]
  ELSE IF out.kind # "json"
  THEN OnChunkError(chunk, <<>>, FailureMessage(out.kind))
  ELSE LET m == MapChunk(chunk, out.arr, cats, 1)
       IN IF m.threw
          THEN OnChunkError(chunk, m.pushed, m.err)
          ELSE [pushed |-> m.pushed, failed |-> FALSE, escaped |-> FALSE]

\* A slice that takes one element more than asked for.
SliceOneMore(seq, from, to) ==
  SubSeq(seq, from + 1, IF to + 1 < Len(seq) THEN to + 1 ELSE Len(seq))

\* seq.slice(from, to) for 0 <= from <= to: the elements at the 0-based positions
\* from .. to - 1 that exist.
Slice(seq, from, to) == SubSeq(seq, from + 1, IF to < Len(seq) THEN to ELSE Len(seq))

\* items.slice(i, i + batchSize) for the k-th chunk (k from 1).
Chunk(items, batchSize, k) ==
  SubSeq(items, (k - 1) * batchSize + 1,
         IF k * batchSize < Len(items) THEN k * batchSize ELSE Len(items))

\* The number of chunks the splitting loop pushes.
NumChunks(items, batchSize) == (Len(items) + batchSize - 1) \div batchSize

\* results.filter((r) => r.needsReview).length
CountReview(rs) == Cardinality({i \in 1..Len(rs) : rs[i].needsReview})

\* The BatchLabelingResult labelDataBatch returns (times left out).
BatchResult(rs, items) ==
  [results |-> rs, totalItems |-> Len(items), reviewNeeded |-> CountReview(rs)]

\* A value for "no BatchLabelingResult" (null).
Null == [results |-> <<>>, totalItems |-> -1, reviewNeeded |-> 0]

IsNull(r) == r.totalItems = -1

\* ------------------------------------------------------------ inputs

\* id: `item-${index}` (DataLabeler.handleDataUploaded).
ItemIds(n) == [i \in 1..n |-> "item-" \o ToString(i - 1)]

\* The category descriptors of a direct call.
DirectCategories == <<"Issue Type: Bug | Feature", "Urgency: High | Low">>

ObjHi == ModelObj(JStr("Issue Type: Bug"), JNum(92), JStr("cites the text"), Undef)

ObjBorder == ModelObj(JStr("Issue Type: Feature"), JNum(70), JStr("cites the text"), Undef)

ObjLo == ModelObj(JStr("Urgency: High"), JNum(69), Undef, JStr("mixed signals"))

ObjNoConfidence == ModelObj(JStr("Urgency: Low"), Undef, JStr(" "), Undef)

ObjEcho == ModelObj(JStr("Bug: Bug"), JNum(90), JStr("cites the text"), Undef)

ObjNumberLabel == ModelObj(JNum(7), JNum(90), JStr("cites the text"), Undef)

SingleObjects == {ObjHi, ObjBorder, ObjLo, ObjNoConfidence, ObjEcho, ObjNumberLabel}

Failures == {Outcome(k, NoObj, <<>>) : k \in {"throw", "nomatch", "badjson"}}

SingleOutcomes == Failures \cup {Outcome("json", o, <<>>) : o \in SingleObjects}

BatchEntries ==
  {NullEntry, Entry(ObjHi), Entry(ObjLo), Entry(ObjEcho), Entry(ObjNumberLabel)}

\* Every JSON array of at most len entries.
BatchOutcomes(len) ==
  Failures \cup {Outcome("json", NoObj, a) :
                  a \in UNION {[1..l -> BatchEntries] : l \in 0..len}}

\* The behaviours of the inference backend (env.AI) during one run: "any" answers
\* every call with any outcome, "down" rejects every call, "steady" answers every
\* call with well-formed confident labels, "mixed" answers a single-item call with
\* a confident label, an unsure label or a rejection.
AIModes == {"any", "down", "steady", "mixed"}

SteadyArray(len) == [i \in 1..len |-> Entry(ObjHi)]

\* The outcomes of the inference call for a chunk under a behaviour of the backend.
Outcomes(chunk, mode) ==
  CASE mode = "down" -> {Outcome("throw", NoObj, <<>>)}
    [] mode = "steady" ->
         IF Len(chunk) = 1 THEN {Outcome("json", ObjHi, <<>>)}
         ELSE {Outcome("json", NoObj, SteadyArray(Len(chunk)))}
    [] mode = "mixed" /\ Len(chunk) = 1 ->
         {Outcome("throw", NoObj, <<>>), Outcome("json", ObjHi, <<>>),
          Outcome("json", ObjLo, <<>>)}
    [] OTHER -> IF Len(chunk) = 1 THEN SingleOutcomes ELSE BatchOutcomes(Len(chunk))

\* ------------------------------------------------------------ POST /api/label

\* A request: body is "object", "null" (the JSON text null) or "notjson" (request.json()
\* rejects); data is "missing" (absent or falsy), "notarray" (truthy, no array) or an
\* "array" of dataLen items; intent is "missing" or an "object" that has a
\* datasetDescription or not and whose labelCategories is "missing", "notarray"
\* or an "array" labelCategories.
Request(body, data, dataLen, intent, described, catsKind, labelCategories) ==
  [body |-> body, data |-> data, dataLen |-> dataLen, intent |-> intent,
   described |-> described, catsKind |-> catsKind, labelCategories |-> labelCategories]

NoRequest == Request("none", "missing", 0, "missing", FALSE, "missing", <<>>)

\* A validation whose upper bound on data.length is off by one.
ValidateOffByOne(r) ==
  IF r.body # "object" THEN 500
  ELSE IF r.data = "missing" \/ r.intent = "missing" THEN 400
  ELSE IF r.data # "array" \/ r.dataLen = 0 \/ r.dataLen > MaxDataLength + 1 THEN 400
  ELSE IF ~r.described \/ r.catsKind # "array" \/ Len(r.labelCategories) = 0 THEN 400
  ELSE 0

\* The status handleLabelingRequest answers with before it labels anything, 0 when
\* the request passes validation.  Reading body.data of null throws, as does
\* request.json() on a body that is no JSON: both end in the catch block.
Validate(r) ==
  IF r.body # "object" THEN 500
  ELSE IF r.data = "missing" \/ r.intent = "missing" THEN 400
  ELSE IF r.data # "array" \/ r.dataLen = 0 \/ r.dataLen > MaxDataLength THEN 400
  ELSE IF ~r.described \/ r.catsKind # "array" \/ Len(r.labelCategories) = 0 THEN 400
  ELSE 0

\* A choice of batchSize that takes five items for a large dataset.
BatchSizeForUnderFive(n) == IF n < SmallDatasetMax THEN 1 ELSE ApiBatchSize

\* const batchSize = data.length <= 5 ? 1 : 5
BatchSizeFor(n) == IF n <= SmallDatasetMax THEN 1 ELSE ApiBatchSize

\* The data lengths of the requests posted to the endpoint directly.
RequestLengths ==
  {0, 1, SmallDatasetMax, SmallDatasetMax + 1, MaxDataLength, MaxDataLength + 1}

Requests ==
  {Request(b, d, n, i, ds, ck, lc) :
     b \in {"object", "null", "notjson"}, d \in {"missing", "notarray", "array"},
     n \in RequestLengths, i \in {"missing", "object"}, ds \in BOOLEAN,
     ck \in {"missing", "notarray", "array"}, lc \in {<<>>, DirectCategories}}

\* ------------------------------------------------------------ Coverage Enhancer

\* A LabelCategory of the hook's LabelingIntent: its type and the names of its
\* options.
Category(type, options) == [type |-> type, options |-> options]

\* options.map((opt) => opt.name).join(" | ")
RECURSIVE JoinOptions(_)
JoinOptions(names) ==
  IF Len(names) = 0 THEN ""
  ELSE IF Len(names) = 1 THEN names[1]
  ELSE names[1] \o " | " \o JoinOptions(Tail(names))

\* apiIntent.labelCategories: `${cat.type}: ${options joined}` per category.
ApiCategories(tax) ==
  [i \in 1..Len(tax) |-> tax[i].type \o ": " \o JoinOptions(tax[i].options)]

\* The keys of groupedByItem in insertion order: the item ids of rs in the order of
\* their first result.
RECURSIVE GroupKeys(_)
GroupKeys(rs) ==
  IF Len(rs) = 0 THEN <<>>
  ELSE LET front == GroupKeys(SubSeq(rs, 1, Len(rs) - 1))
       IN IF rs[Len(rs)].itemId \in Range(front) THEN front
          ELSE Append(front, rs[Len(rs)].itemId)

\* groupedByItem[itemId]
GroupOf(rs, id) == SelectSeq(rs, LAMBDA r : r.itemId = id)

\* new Set(itemResults.map((r) => r.label.split(":")[0].trim()))
UsedLabelTypes(group) == {LabelPrefix(group[i].label) : i \in 1..Len(group)}

\* The placeholder pushed for a category the item has no label of.
Synthesized(id, cat) ==
  MkResult(id, cat.type \o ": " \o cat.options[1], 0, "[added automatically]",
           "This label was automatically added and requires human verification.",
           TRUE, TRUE)

\* intent.labelCategories.forEach over the categories from position i on: one
\* placeholder per category whose type is not in used and that has an option.
RECURSIVE Placeholders(_, _, _, _)
Placeholders(id, tax, used, i) ==
  IF i > Len(tax) THEN <<>>
  ELSE IF tax[i].type \notin used /\ Len(tax[i].options) > 0
  THEN <<Synthesized(id, tax[i])>> \o Placeholders(id, tax, used, i + 1)
  ELSE Placeholders(id, tax, used, i + 1)

\* The body of the loop over groupedByItem for one item.
EnhanceItem(rs, tax, id) ==
  LET group == GroupOf(rs, id)
      used == UsedLabelTypes(group)
  IN IF Len(tax) > 1 /\ Cardinality(used) < Len(tax)
     THEN group \o Placeholders(id, tax, used, 1)
     ELSE group

RECURSIVE EnhanceFrom(_, _, _, _)
EnhanceFrom(rs, tax, keys, i) ==
  IF i > Len(keys) THEN <<>>
  ELSE EnhanceItem(rs, tax, keys[i]) \o EnhanceFrom(rs, tax, keys, i + 1)

\* postProcessResults(results, intent, data)
postProcessResults(rs, tax) == EnhanceFrom(rs, tax, GroupKeys(rs), 1)

\* ------------------------------------------------------------ Reasoning Backfill

\* The positions of the results that carry the needsLLMReasoning flag, in order.
FlaggedPositions(rs) ==
  SelectSeq([i \in 1..Len(rs) |-> i], LAMBDA i : rs[i].needsLLMReasoning)

\* updatedResults.findIndex((r) => r.itemId === id && r.label === label): 0 for -1.
FindIndex(rs, id, label) ==
  IF \E i \in 1..Len(rs) : rs[i].itemId = id /\ rs[i].label = label
  THEN CHOOSE i \in 1..Len(rs) :
         /\ rs[i].itemId = id /\ rs[i].label = label
         /\ \A j \in 1..(i - 1) : ~(rs[j].itemId = id /\ rs[j].label = label)
  ELSE 0

\* The labels entry of itemsToProcess for an item: for each flagged result of the
\* item whose findIndex is found, the index found and the label.
LabelsOf(rs, id) ==
  LET mine == SelectSeq(FlaggedPositions(rs), LAMBDA i : rs[i].itemId = id)
      found == SelectSeq(mine, LAMBDA i : FindIndex(rs, id, rs[i].label) # 0)
  IN [k \in 1..Len(found) |->
        [index |-> FindIndex(rs, id, rs[found[k]].label), label |-> rs[found[k]].label]]

\* itemsToProcess in insertion order: the items of data that own a flagged result.
ItemsToProcess(rs, data) ==
  LET flagged == [k \in 1..Len(FlaggedPositions(rs)) |-> rs[FlaggedPositions(rs)[k]]]
      keys == SelectSeq(GroupKeys(flagged), LAMBDA id : id \in Range(data))
  IN [k \in 1..Len(keys) |-> [itemId |-> keys[k], labels |-> LabelsOf(rs, keys[k])]]

\* The value of a label's key in the completion's JSON object: "absent" (no key, or
\* a falsy value), a bare "string", or an "object" with reasoning, confidence and
\* uncertainty.
BackfillValue(kind, reasoning, confidence, uncertainty) ==
  [kind |-> kind, reasoning |-> reasoning, confidence |-> confidence,
   uncertainty |-> uncertainty]

\* The destructured { reasoning, confidence, uncertainty } of a truthy value.
Destructured(v) ==
  IF v.kind = "string"
  THEN BackfillValue("object", v.reasoning, JNum(DefaultConfidence), Undef)
  ELSE v

FloorConfidence == 60

\* The update of the success path for one label.
BackfillUpdate(r, v) ==
  LET d == Destructured(v)
  IN [r EXCEPT
        !.reasoning = IF Truthy(d.reasoning) THEN d.reasoning.s ELSE r.reasoning,
        !.confidence = IF Truthy(d.confidence) THEN d.confidence.n ELSE r.confidence,
        !.uncertaintyExplanation = d.uncertainty.s,
        !.needsReview =
           (d.confidence.k = "num" /\ d.confidence.n < ReviewThreshold) \/ r.needsReview,
        !.needsLLMReasoning = FALSE]

\* The update of the catch block for one label.
BackfillFallback(r) ==
  [r EXCEPT
     !.reasoning = "This label was suggested for this content",
     !.confidence = IF r.confidence > FloorConfidence THEN r.confidence ELSE FloorConfidence,
     !.uncertaintyExplanation =
        "There was an issue generating detailed analysis for this label.",
     !.needsReview = TRUE,
     !.needsLLMReasoning = FALSE]

\* itemData.labels.forEach from position i on, with the completion's object answer
\* (a function from the labels asked about to values), or failed.
RECURSIVE BackfillLabels(_, _, _, _, _)
BackfillLabels(rs, labels, failed, answer, i) ==
  IF i > Len(labels) THEN rs
  ELSE LET idx == labels[i].index
           next == IF failed THEN [rs EXCEPT ![idx] = BackfillFallback(rs[idx])]
                   ELSE IF answer[labels[i].label].kind = "absent" THEN rs
                   ELSE [rs EXCEPT ![idx] = BackfillUpdate(rs[idx], answer[labels[i].label])]
       IN BackfillLabels(next, labels, failed, answer, i + 1)

\* ------------------------------------------------------------ updateLabel

\* results.results.map(...) of updateLabel(itemId, newLabel)
UpdatedLabels(rs, id, newLabel) ==
  [i \in 1..Len(rs) |->
     IF rs[i].itemId = id /\ rs[i].label = newLabel
     THEN [rs[i] EXCEPT !.needsReview = FALSE, !.confidence = 100]
     ELSE rs[i]]

\* ------------------------------------------------------------ inputs of the hook

IssueType == Category("Issue Type", <<"Bug", "Feature">>)

Urgency == Category("Urgency", <<"High", "Low">>)

\* A category whose heading holds a colon (parseConfigText takes the whole line).
UrgencySLA == Category("Urgency: SLA", <<"Breached">>)

\* A category with no option bullet.
Tone == Category("Tone", <<>>)

Taxonomies ==
  {<<IssueType>>, <<IssueType, Urgency>>, <<Urgency, UrgencySLA>>,
   <<IssueType, Urgency, Tone>>}

ValueAbsent == BackfillValue("absent", Undef, Undef, Undef)

ValueString == BackfillValue("string", JStr("legacy text"), Undef, Undef)

ValueSure == BackfillValue("object", JStr("quotes the text"), JNum(85), Undef)

ValueUnsure == BackfillValue("object", JStr("quotes the text"), JNum(50), JStr("ambiguous"))

BackfillValues == {ValueAbsent, ValueString, ValueSure, ValueUnsure}

\* The labels a reviewer may save besides those shown.
OtherLabels == {"Issue Type: Feature"}

\* ------------------------------------------------------------ CSV export

\* s.replace(/"/g, '""')
DoubleQuotes(s) ==
  LET RECURSIVE From(_)
      From(i) == IF i > Len(s) THEN ""
                 ELSE (IF CharAt(s, i) = "\"" THEN "\"\"" ELSE CharAt(s, i)) \o From(i + 1)
  IN From(1)

\* `"${s}"`
Quoted(s) == "\"" \o s \o "\""

\* parts.join(sep)
Join(parts, sep) ==
  LET RECURSIVE From(_)
      From(i) == IF i > Len(parts) THEN ""
                 ELSE IF i = Len(parts) THEN parts[i]
                 ELSE parts[i] \o sep \o From(i + 1)
  IN From(1)

YesNo(b) == IF b THEN "Yes" ELSE "No"

HookHeader == "ItemId,Label,Confidence,Reasoning,NeedsReview\n"

\* The row exportToCsv writes for a result.
HookRow(r) ==
  Join(<<r.itemId, Quoted(DoubleQuotes(r.label)), ToString(r.confidence),
         Quoted(DoubleQuotes(r.reasoning)), YesNo(r.needsReview)>>, ",")

\* exportToCsv of the hook, for its results (an empty list standing for null too).
exportToCsv(rs) ==
  IF Len(rs) = 0 THEN "No data available for export"
  ELSE HookHeader \o Join([i \in 1..Len(rs) |-> HookRow(rs[i])], "\n")

ViewerHeader == "Text,Label,Confidence,Reasoning,NeedsReview\n"

\* The row the project viewer's handleExport writes for a result.
ViewerRow(r) ==
  Join(<<Quoted(r.itemId), Quoted(r.label), ToString(r.confidence),
         Quoted(DoubleQuotes(r.reasoning)), YesNo(r.needsReview)>>, ",")

\* The csv of the project viewer's handleExport for the results of currentProject.
handleExport(rs) ==
  ViewerHeader \o Join([i \in 1..Len(rs) |-> ViewerRow(rs[i])], "\n")

\* ------------------------------------------------------------ Session Store

\* `session-${Date.now()}`
SessionId(t) == "session-" \o ToString(t)

\* The ids a session can be stored or asked for under.
SessionIds == {SessionId(t) : t \in 0..MaxClock}

\* A LabelingSession as JSON.parse(JSON.stringify(session)) gives it back; the
\* timestamps, new Date().toISOString(), are the clock's reading.  present is FALSE
\* for the null of a key localStorage does not hold.
Session(id, name, createdAt, updatedAt, sessionData, intent, sessionResults, status) ==
  [present |-> TRUE, id |-> id, name |-> name, createdAt |-> createdAt,
   updatedAt |-> updatedAt, data |-> sessionData, intent |-> intent,
   results |-> sessionResults, status |-> status]

NoSession ==
  [present |-> FALSE, id |-> "", name |-> "", createdAt |-> 0, updatedAt |-> 0,
   data |-> <<>>, intent |-> <<>>, results |-> <<>>, status |-> ""]

\* An entry of the metadata list; status is "" while the entry has no status field.
Metadata(id, name, createdAt, updatedAt, status) ==
  [id |-> id, name |-> name, createdAt |-> createdAt, updatedAt |-> updatedAt,
   status |-> status]

\* getSession: the stored session or null.
getSession(records, sessionId) == records[sessionId]

\* A createSession that stops after its first write: the record is saved and the
\* metadata list is left as it was.
createRecordOnly(records, sessions, name, sessionData, intent, idTime, nowTime) ==
  LET id == SessionId(idTime)
      session == Session(id, name, nowTime, nowTime, sessionData, intent, <<>>, "in_progress")
  IN [records |-> [records EXCEPT ![id] = session],
      sessions |-> sessions,
      ret |-> session]

\* createSession's session object and what its two writes leave in localStorage.
createSession(records, sessions, name, sessionData, intent, idTime, nowTime) ==
  LET id == SessionId(idTime)
      session == Session(id, name, nowTime, nowTime, sessionData, intent, <<>>, "in_progress")
  IN [records |-> [records EXCEPT ![id] = session],
      sessions |-> Append(sessions, Metadata(id, name, nowTime, nowTime, "")),
      ret |-> session]

\* A metadata update that does not look at the id of an entry.
updateEveryMetadata(sessions, sessionId, updatedAt, status) ==
  [i \in 1..Len(sessions) |->
     [sessions[i] EXCEPT !.updatedAt = updatedAt,
                         !.status = IF status = "" THEN @ ELSE status]]

\* updateSessionMetadata: { ...session, ...updates } for every entry with the id.
\* status is "" when updates has no status.
updateSessionMetadata(sessions, sessionId, updatedAt, status) ==
  [i \in 1..Len(sessions) |->
     IF sessions[i].id = sessionId
     THEN [sessions[i] EXCEPT !.updatedAt = updatedAt,
                              !.status = IF status = "" THEN @ ELSE status]
     ELSE sessions[i]]

\* updateSessionResults: null for an id with no record, else the record rewritten
\* and the metadata updated.
updateSessionResults(records, sessions, sessionId, newResults, nowTime) ==
  LET session == getSession(records, sessionId)
      updatedSession == [session EXCEPT !.results = newResults, !.updatedAt = nowTime]
  IN IF ~session.present
     THEN [records |-> records, sessions |-> sessions, ret |-> NoSession]
     ELSE [records |-> [records EXCEPT ![session.id] = updatedSession],
           sessions |-> updateSessionMetadata(sessions, sessionId, nowTime, ""),
           ret |-> updatedSession]

\* completeSession: null for an id with no record, else the record rewritten with
\* status "completed" and the metadata updated.
completeSession(records, sessions, sessionId, nowTime) ==
  LET session == getSession(records, sessionId)
      updatedSession == [session EXCEPT !.status = "completed", !.updatedAt = nowTime]
  IN IF ~session.present
     THEN [records |-> records, sessions |-> sessions, ret |-> NoSession]
     ELSE [records |-> [records EXCEPT ![session.id] = updatedSession],
           sessions |-> updateSessionMetadata(sessions, sessionId, nowTime, "completed"),
           ret |-> updatedSession]

\* What deleteSession returns when nothing throws.
DeleteReturn == "true"

\* A deletion that removes the record and leaves the metadata list alone.
deleteRecordOnly(records, sessions, sessionId) ==
  [records |-> [records EXCEPT ![sessionId] = NoSession],
   sessions |-> sessions,
   ret |-> DeleteReturn]

\* deleteSession: removeItem, then the metadata list without the entries of the id.
deleteSession(records, sessions, sessionId) ==
  [records |-> [records EXCEPT ![sessionId] = NoSession],
   sessions |-> SelectSeq(sessions, LAMBDA m : m.id # sessionId),
   ret |-> DeleteReturn]

\* A Session Store operation that returned: its name, the id and the results it was
\* called with, the kind of value it returned ("session", "null", "true" or "false"),
\* the session returned if any, and whether an exception left it.
StoreOp(op, id, arg, returned, session, threw) ==
  [op |-> op, id |-> id, arg |-> arg, ret |-> returned, session |-> session,
   threw |-> threw]

NoStoreOp == StoreOp("none", "", <<>>, "", NoSession, FALSE)

\* What a function that returns LabelingSession | null returned.
SessionOrNull(session) == IF session.present THEN "session" ELSE "null"

\* ------------------------------------------------------------ state

VARIABLES
  entry,        \* how the run started: "none", "direct", "http" or "hook"
  ai,           \* the behaviour of the inference backend during the run
  items,        \* labelDataBatch: the ids of items
  batchSize,    \* labelDataBatch: batchSize
  cats,         \* labelDataBatch: intent.labelCategories
  pc,           \* labelDataBatch: "idle", "loop", "await", "returned" or "threw"
  bi,           \* labelDataBatch: the chunk the loop is at (from 1)
  results,      \* labelDataBatch: results
  callLog,      \* the chunks an inference call was issued for, in order
  pathLog,      \* the inference path of each of these calls: "single" or "batch"
  failedChunks, \* the chunks whose processing raised an exception
  lastOutcome,  \* the outcome of the latest inference call that settled
  ret,          \* the BatchLabelingResult labelDataBatch returned
  req,          \* handleLabelingRequest: the request
  pcH,          \* handleLabelingRequest: "idle", "received", "labelling", "responded"
  httpStatus,   \* the status of the response, 0 before it
  httpBody,     \* the BatchLabelingResult of a 200 response
  taxonomy,     \* labelData: intent.labelCategories
  data,         \* labelData: the ids of data
  pcK,          \* labelData: "idle", "fetching", "backfill" or "done"
  working,      \* processedResults, then updatedResults of generateReasoningForLabels
  queue,        \* generateReasoningForLabels: itemsToProcess
  qi,           \* generateReasoningForLabels: the entry of itemsToProcess the loop is at
  backfillCalls, \* the items a completion call was issued for, in order
  backfillLog,  \* the completion calls that settled: item, outcome, results before and after
  hookResults,  \* the hook's state results (Null for null)
  hookError,    \* the hook's state error ("" for null)
  isProcessing, \* the hook's state isProcessing
  edits,        \* the number of updateLabel calls so far
  enhTax,       \* postProcessResults applied repeatedly: the taxonomy
  enhPrev,      \* its argument in the latest pass
  enhOut,       \* its value in the latest pass (its input before the first)
  enhPasses,    \* the number of passes so far
  now,          \* Session Store: the clock, what Date.now() reads
  storedRecords, \* localStorage: the session stored under SESSION_PREFIX + id
  storedSessions, \* localStorage: the metadata list stored under SESSIONS
  storeOp,      \* the latest Session Store operation and what it returned
  storePrev,    \* storedRecords and storedSessions before that operation
  storeOps,     \* the number of Session Store operations so far
  storeCreates, \* the number of createSession calls so far
  csvResults,   \* CSV export: the result list exported
  csvBy,        \* CSV export: "none", "hook" (exportToCsv) or "viewer" (handleExport)
  csv,          \* CSV export: the text produced
  splitItems,   \* the splitting loop of labelDataBatch: items
  splitSize,    \* the splitting loop: batchSize
  splitI,       \* the splitting loop: i (from 0)
  batches,      \* the splitting loop: batches
  currentStep,  \* DataLabeler: currentStep
  labelerData,  \* DataLabeler: data, the ids of the uploaded items
  labelerIntent, \* DataLabeler: intent.labelCategories (<<>> for null)
  labelResults, \* DataLabeler: labelResults
  currentProjectId, \* DataLabeler: currentProjectId ("" for null)
  runs,         \* the handleIntentCaptured calls whose labelData has not returned
  runsStarted,  \* the number of handleIntentCaptured calls so far
  editLog,      \* the handleUpdateLabel calls since labelResults was set
  currentProject, \* ProjectViewer: currentProject (NoSession for null)
  viewerLog     \* ProjectViewer: the handleUpdateLabel calls so far

batchVars ==
  <<items, batchSize, cats, pc, bi, results, callLog, pathLog, failedChunks, lastOutcome,
    ret>>

httpVars == <<req, pcH, httpStatus, httpBody>>

hookVars ==
  <<taxonomy, data, pcK, working, queue, qi, backfillCalls, backfillLog, hookResults,
    hookError, isProcessing, edits>>

enhVars == <<enhTax, enhPrev, enhOut, enhPasses>>

storeVars ==
  <<now, storedRecords, storedSessions, storeOp, storePrev, storeOps, storeCreates>>

csvVars == <<csvResults, csvBy, csv>>

labelerVars ==
  <<currentStep, labelerData, labelerIntent, labelResults, currentProjectId, runs,
    runsStarted, editLog>>

viewerVars == <<currentProject, viewerLog>>

splitVars == <<splitItems, splitSize, splitI, batches>>

vars ==
  <<entry, ai, batchVars, httpVars, hookVars, enhVars, storeVars, csvVars, splitVars,
    labelerVars, viewerVars>>

BatchIdle ==
  /\ items = <<>>
  /\ batchSize = 1
  /\ cats = <<>>
  /\ pc = "idle"
  /\ bi = 1
  /\ results = <<>>
  /\ callLog = <<>>
  /\ pathLog = <<>>
  /\ failedChunks = {}
  /\ lastOutcome = NoOutcome
  /\ ret = Null

HttpIdle ==
  /\ req = NoRequest
  /\ pcH = "idle"
  /\ httpStatus = 0
  /\ httpBody = Null

HookIdle ==
  /\ taxonomy = <<>>
  /\ data = <<>>
  /\ pcK = "idle"
  /\ working = <<>>
  /\ queue = <<>>
  /\ qi = 1
  /\ backfillCalls = <<>>
  /\ backfillLog = <<>>
  /\ hookResults = Null
  /\ hookError = ""
  /\ isProcessing = FALSE
  /\ edits = 0

EnhancerIdle ==
  /\ enhTax = <<>>
  /\ enhPrev = <<>>
  /\ enhOut = <<>>
  /\ enhPasses = 0

StoreIdle ==
  /\ now = 0
  /\ storedRecords = [id \in SessionIds |-> NoSession]
  /\ storedSessions = <<>>
  /\ storeOp = NoStoreOp
  /\ storePrev = [records |-> [id \in SessionIds |-> NoSession], sessions |-> <<>>]
  /\ storeOps = 0
  /\ storeCreates = 0

CsvIdle ==
  /\ csvResults = <<>>
  /\ csvBy = "none"
  /\ csv = ""

SplitIdle ==
  /\ splitItems = <<>>
  /\ splitSize = 1
  /\ splitI = 0
  /\ batches = <<>>

LabelerIdle ==
  /\ currentStep = "upload"
  /\ labelerData = <<>>
  /\ labelerIntent = <<>>
  /\ labelResults = <<>>
  /\ currentProjectId = ""
  /\ runs = <<>>
  /\ runsStarted = 0
  /\ editLog = <<>>

ViewerIdle ==
  /\ currentProject = NoSession
  /\ viewerLog = <<>>

\* Nothing has been called yet.
Init ==
  /\ entry = "none"
  /\ ai = "any"
  /\ BatchIdle
  /\ HttpIdle
  /\ HookIdle
  /\ EnhancerIdle
  /\ StoreIdle
  /\ CsvIdle
  /\ SplitIdle
  /\ LabelerIdle
  /\ ViewerIdle

\* ------------------------------------------------------------ labelDataBatch

\* The entry of labelDataBatch(items, intent, env, batchSize): results = [], the
\* splitting loop.
EnterBatch(ids, size, categories) ==
  /\ items' = ids
  /\ batchSize' = size
  /\ cats' = categories
  /\ pc' = "loop"
  /\ bi' = 1
  /\ results' = <<>>
  /\ callLog' = <<>>
  /\ pathLog' = <<>>
  /\ failedChunks' = {}
  /\ lastOutcome' = NoOutcome
  /\ ret' = Null

\* A caller other than the request handler calls labelDataBatch.
CallDirect ==
  /\ entry = "none"
  /\ \E n \in 1..MaxItems, size \in {1, ApiBatchSize} :
       /\ size = 1 => n <= MaxItemsOneByOne
       /\ EnterBatch(ItemIds(n), size, DirectCategories)
  /\ entry' = "direct"
  /\ ai' = "any"
  /\ UNCHANGED <<httpVars, hookVars, enhVars, storeVars, csvVars,
                 splitVars, labelerVars, viewerVars>>

\* A loop that issues the call of the next chunk while a call is still awaited.
IssueCallWithoutWaiting ==
  /\ pc \in {"loop", "await"}
  /\ Len(callLog) < NumChunks(items, batchSize)
  /\ pc' = "await"
  /\ callLog' = Append(callLog, Len(callLog) + 1)
  /\ pathLog' = Append(pathLog, PathOf(Chunk(items, batchSize, Len(callLog) + 1)))
  /\ UNCHANGED <<entry, ai, items, batchSize, cats, bi, results, failedChunks, lastOutcome,
                 ret, httpVars, hookVars, enhVars, storeVars, csvVars, splitVars,
                 labelerVars, viewerVars>>

\* The loop reaches a chunk and awaits its inference call.
IssueCall ==
  /\ pc = "loop"
  /\ bi <= NumChunks(items, batchSize)
  /\ pc' = "await"
  /\ callLog' = Append(callLog, bi)
  /\ pathLog' = Append(pathLog, PathOf(Chunk(items, batchSize, bi)))
  /\ UNCHANGED <<entry, ai, items, batchSize, cats, bi, results, failedChunks, lastOutcome,
                 ret, httpVars, hookVars, enhVars, storeVars, csvVars,
                 splitVars, labelerVars, viewerVars>>

\* The inference call of the chunk settles and the rest of the iteration runs.
Resolve ==
  /\ pc = "await"
  /\ \E out \in Outcomes(Chunk(items, batchSize, bi), ai) :
       LET r == ProcessChunk(Chunk(items, batchSize, bi), out, cats)
       IN /\ results' = results \o r.pushed
          /\ failedChunks' = IF r.failed THEN failedChunks \cup {bi} ELSE failedChunks
          /\ pc' = IF r.escaped THEN "threw" ELSE "loop"
          /\ bi' = IF r.escaped THEN bi ELSE bi + 1
          /\ lastOutcome' = out
  /\ UNCHANGED <<entry, ai, items, batchSize, cats, callLog, pathLog, ret, httpVars, hookVars,
                 enhVars, storeVars, csvVars,
                 splitVars, labelerVars, viewerVars>>

\* The loop is over: reviewNeeded is counted and the result returned.
Return ==
  /\ pc = "loop"
  /\ bi > NumChunks(items, batchSize)
  /\ pc' = "returned"
  /\ ret' = BatchResult(results, items)
  /\ UNCHANGED <<entry, ai, items, batchSize, cats, bi, results, callLog, pathLog,
                 failedChunks, lastOutcome, httpVars, hookVars, enhVars, storeVars, csvVars,
                 splitVars, labelerVars, viewerVars>>

\* ------------------------------------------------------------ handleLabelingRequest

\* A client posts a request to /api/label.
Post ==
  /\ entry = "none"
  /\ \E r \in Requests, mode \in {"any", "down", "steady"} :
       /\ r.dataLen > MaxItemsOneByOne => mode # "any"
       /\ req' = r
       /\ ai' = mode
  /\ entry' = "http"
  /\ pcH' = "received"
  /\ UNCHANGED <<batchVars, httpStatus, httpBody, hookVars, enhVars, storeVars, csvVars,
                 splitVars, labelerVars, viewerVars>>

\* The handler reads the body, validates it and either answers or calls
\* labelDataBatch.
Handle ==
  /\ pcH = "received"
  /\ IF Validate(req) # 0
     THEN /\ httpStatus' = Validate(req)
          /\ pcH' = "responded"
          /\ UNCHANGED batchVars
     ELSE /\ EnterBatch(ItemIds(req.dataLen), BatchSizeFor(req.dataLen), req.labelCategories)
          /\ pcH' = "labelling"
          /\ UNCHANGED httpStatus
  /\ UNCHANGED <<entry, ai, req, httpBody, hookVars, enhVars, storeVars, csvVars,
                 splitVars, labelerVars, viewerVars>>

\* labelDataBatch has settled: the handler answers with its result, or with 500
\* from its catch block.
Respond ==
  /\ pcH = "labelling"
  /\ pc \in {"returned", "threw"}
  /\ httpStatus' = IF pc = "returned" THEN 200 ELSE 500
  /\ httpBody' = IF pc = "returned" THEN ret ELSE Null
  /\ pcH' = "responded"
  /\ UNCHANGED <<entry, ai, req, batchVars, hookVars, enhVars, storeVars, csvVars,
                 splitVars, labelerVars, viewerVars>>

NextBatch == CallDirect \/ IssueCall \/ Resolve \/ Return

SpecBatch == Init /\ [][NextBatch]_vars

NextApi == Post \/ Handle \/ IssueCall \/ Resolve \/ Return \/ Respond

SpecApi == Init /\ [][NextApi]_vars

\* ------------------------------------------------------------ useLabelingService

\* labelData(data, intent) up to its fetch of /api/label.
LabelData ==
  /\ entry = "none"
  /\ \E n \in 0..MaxHookItems, tax \in Taxonomies :
       /\ data' = ItemIds(n)
       /\ taxonomy' = tax
       /\ req' = Request("object", "array", n, "object", TRUE, "array", ApiCategories(tax))
  /\ entry' = "hook"
  /\ ai' = "mixed"
  /\ pcH' = "received"
  /\ pcK' = "fetching"
  /\ isProcessing' = TRUE
  /\ hookError' = ""
  /\ UNCHANGED <<batchVars, httpStatus, httpBody, working, queue, qi, backfillCalls,
                 backfillLog, hookResults, edits, enhVars, storeVars, csvVars,
                 splitVars, labelerVars, viewerVars>>

\* The results labelData stores: resultData with its results replaced, every other
\* field as the server sent it.
Stored(resultData, rs) == [resultData EXCEPT !.results = rs]

\* The response of /api/label arrives.  A response that is not ok ends labelData
\* with null; otherwise the Coverage Enhancer runs and, when it left a flagged
\* result, generateReasoningForLabels starts, else the results are stored.
Receive ==
  /\ pcK = "fetching"
  /\ pcH = "responded"
  /\ IF httpStatus # 200
     THEN /\ hookError' = "Data must be an array with 1-100 items"
          /\ pcK' = "done"
          /\ isProcessing' = FALSE
          /\ UNCHANGED <<working, queue, hookResults>>
     ELSE LET processed == postProcessResults(httpBody.results, taxonomy)
          IN /\ working' = processed
             /\ UNCHANGED hookError
             /\ IF Len(FlaggedPositions(processed)) > 0
                THEN /\ queue' = ItemsToProcess(processed, data)
                     /\ pcK' = "backfill"
                     /\ UNCHANGED <<hookResults, isProcessing>>
                ELSE /\ hookResults' = Stored(httpBody, processed)
                     /\ pcK' = "done"
                     /\ isProcessing' = FALSE
                     /\ UNCHANGED queue
  /\ UNCHANGED <<entry, ai, batchVars, httpVars, taxonomy, data, qi, backfillCalls,
                 backfillLog, edits, enhVars, storeVars, csvVars,
                 splitVars, labelerVars, viewerVars>>

\* The labels asked about in the prompt of an entry of itemsToProcess.
LabelsAsked(e) == {e.labels[i].label : i \in 1..Len(e.labels)}

\* The JSON objects a completion answers with: every label asked about has the same
\* kind of value, or only the first label has a key.
Answers(e) ==
  {[l \in LabelsAsked(e) |-> v] : v \in BackfillValues}
    \cup {[l \in LabelsAsked(e) |-> IF l = e.labels[1].label THEN ValueSure ELSE ValueAbsent]}

\* The entry of backfillLog for a completion call that settled.
Settled(itemId, failed, answer, before, after) ==
  [itemId |-> itemId, failed |-> failed, answer |-> answer, before |-> before,
   after |-> after]

\* A loop that fetches the completion of the next item while one is pending.
BackfillCallWithoutWaiting ==
  /\ pcK = "backfill"
  /\ Len(backfillCalls) < Len(queue)
  /\ backfillCalls' = Append(backfillCalls, queue[Len(backfillCalls) + 1].itemId)
  /\ UNCHANGED <<entry, ai, batchVars, httpVars, taxonomy, data, pcK, working, queue, qi,
                 backfillLog, hookResults, hookError, isProcessing, edits, enhVars,
                 storeVars, csvVars, splitVars, labelerVars, viewerVars>>

\* The loop over itemsToProcess reaches its await: the prompt of the item is built
\* and the completion call is issued.
BackfillCall ==
  /\ pcK = "backfill"
  /\ qi <= Len(queue)
  /\ Len(backfillCalls) = qi - 1
  /\ backfillCalls' = Append(backfillCalls, queue[qi].itemId)
  /\ UNCHANGED <<entry, ai, batchVars, httpVars, taxonomy, data, pcK, working, queue, qi,
                 backfillLog, hookResults, hookError, isProcessing, edits, enhVars,
                 storeVars, csvVars, splitVars, labelerVars, viewerVars>>

\* The rest of the iteration: the completion call for the item settles (it failed,
\* or it answered with a JSON object) and the item's labels are updated.
BackfillItem ==
  /\ pcK = "backfill"
  /\ qi <= Len(queue)
  /\ Len(backfillCalls) >= qi
  /\ \E failed \in BOOLEAN, answer \in Answers(queue[qi]) :
       /\ failed => \A l \in LabelsAsked(queue[qi]) : answer[l] = ValueAbsent
       /\ working' = BackfillLabels(working, queue[qi].labels, failed, answer, 1)
       /\ backfillLog' =
            Append(backfillLog, Settled(queue[qi].itemId, failed, answer, working, working'))
  /\ qi' = qi + 1
  /\ UNCHANGED <<entry, ai, batchVars, httpVars, taxonomy, data, pcK, queue,
                 backfillCalls, hookResults, hookError, isProcessing, edits, enhVars,
                 storeVars, csvVars, splitVars, labelerVars, viewerVars>>

\* generateReasoningForLabels returns; labelData stores resultData.
Store ==
  /\ pcK = "backfill"
  /\ qi > Len(queue)
  /\ hookResults' = Stored(httpBody, working)
  /\ pcK' = "done"
  /\ isProcessing' = FALSE
  /\ UNCHANGED <<entry, ai, batchVars, httpVars, taxonomy, data, working, queue, qi,
                 backfillCalls, backfillLog, hookError, edits, enhVars, storeVars, csvVars,
                 splitVars, labelerVars, viewerVars>>

\* The labels of the hook's results.
ShownLabels == {hookResults.results[i].label : i \in 1..Len(hookResults.results)}

\* updateLabel(itemId, newLabel): nothing without results.
UpdateLabel ==
  /\ pcK = "done"
  /\ edits < MaxEdits
  /\ \E i \in 1..Len(data), newLabel \in ShownLabels \cup OtherLabels :
       IF IsNull(hookResults)
       THEN UNCHANGED hookResults
       ELSE hookResults' =
              [hookResults EXCEPT
                 !.results = UpdatedLabels(hookResults.results, data[i], newLabel),
                 !.reviewNeeded =
                    CountReview(UpdatedLabels(hookResults.results, data[i], newLabel))]
  /\ edits' = edits + 1
  /\ UNCHANGED <<entry, ai, batchVars, httpVars, taxonomy, data, pcK, working, queue, qi,
                 backfillCalls, backfillLog, hookError, isProcessing, enhVars, storeVars,
                 csvVars,
                 splitVars, labelerVars, viewerVars>>

Next ==
  \/ CallDirect
  \/ Post
  \/ LabelData
  \/ Handle
  \/ IssueCall
  \/ Resolve
  \/ Return
  \/ Respond
  \/ Receive
  \/ BackfillCall
  \/ BackfillItem
  \/ Store
  \/ UpdateLabel

Spec == Init /\ [][Next]_vars

\* ------------------------------------------------------------ the Session Store alone

\* What a project is started with: a name, the uploaded items and the taxonomy.
SessionInputs ==
  {[name |-> "Project A", data |-> ItemIds(1), intent |-> <<IssueType>>],
   [name |-> "Project B", data |-> ItemIds(2), intent |-> <<IssueType, Urgency>>]}

\* The result lists saved into a session.
SessionResults ==
  {<<ItemFromObject("item-0", ObjHi, DirectCategories).val>>,
   <<ItemFromObject("item-0", ObjLo, DirectCategories).val,
     BatchFallback("item-1", "Unexpected token")>>}

\* The operation is over: what it returned is recorded with the store before it.
StoreDone(op, id, arg, returned, session) ==
  /\ storeOp' = StoreOp(op, id, arg, returned, session, FALSE)
  /\ storePrev' = [records |-> storedRecords, sessions |-> storedSessions]
  /\ storeOps' = storeOps + 1

\* Time passes between two operations.
Tick ==
  /\ now < MaxClock
  /\ now' = now + 1
  /\ UNCHANGED <<entry, ai, batchVars, httpVars, hookVars, enhVars, storedRecords,
                 storedSessions, storeOp, storePrev, storeOps, storeCreates, csvVars,
                 splitVars, labelerVars, viewerVars>>

\* createSession(name, data, intent): Date.now() is read for the id and the clock
\* again for createdAt, in the same millisecond or the next.
CreateSession ==
  /\ storeOps < MaxStoreOps
  /\ \E input \in SessionInputs, nowTime \in {now, now + 1} :
       /\ nowTime <= MaxClock
       /\ LET r == createSession(storedRecords, storedSessions, input.name, input.data,
                                 input.intent, now, nowTime)
          IN /\ storedRecords' = r.records
             /\ storedSessions' = r.sessions
             /\ StoreDone("createSession", r.ret.id, <<>>, "session", r.ret)
       /\ now' = nowTime
  /\ storeCreates' = storeCreates + 1
  /\ UNCHANGED <<entry, ai, batchVars, httpVars, hookVars, enhVars, csvVars, splitVars,
                 labelerVars, viewerVars>>

\* updateSessionResults(sessionId, results)
UpdateSessionResults ==
  /\ storeOps < MaxStoreOps
  /\ \E sessionId \in SessionIds, rs \in SessionResults :
       LET r == updateSessionResults(storedRecords, storedSessions, sessionId, rs, now)
       IN /\ storedRecords' = r.records
          /\ storedSessions' = r.sessions
          /\ StoreDone("updateSessionResults", sessionId, rs, SessionOrNull(r.ret), r.ret)
  /\ UNCHANGED <<entry, ai, batchVars, httpVars, hookVars, enhVars, now, storeCreates,
                 csvVars, splitVars, labelerVars, viewerVars>>

\* completeSession(sessionId)
CompleteSession ==
  /\ storeOps < MaxStoreOps
  /\ \E sessionId \in SessionIds :
       LET r == completeSession(storedRecords, storedSessions, sessionId, now)
       IN /\ storedRecords' = r.records
          /\ storedSessions' = r.sessions
          /\ StoreDone("completeSession", sessionId, <<>>, SessionOrNull(r.ret), r.ret)
  /\ UNCHANGED <<entry, ai, batchVars, httpVars, hookVars, enhVars, now, storeCreates,
                 csvVars, splitVars, labelerVars, viewerVars>>

\* getSession(sessionId)
GetSession ==
  /\ storeOps < MaxStoreOps
  /\ \E sessionId \in SessionIds :
       LET session == getSession(storedRecords, sessionId)
       IN StoreDone("getSession", sessionId, <<>>, SessionOrNull(session), session)
  /\ UNCHANGED <<entry, ai, batchVars, httpVars, hookVars, enhVars, now, storedRecords,
                 storedSessions, storeCreates, csvVars, splitVars, labelerVars, viewerVars>>

\* deleteSession(sessionId)
DeleteSession ==
  /\ storeOps < MaxStoreOps
  /\ \E sessionId \in SessionIds :
       LET r == deleteSession(storedRecords, storedSessions, sessionId)
       IN /\ storedRecords' = r.records
          /\ storedSessions' = r.sessions
          /\ StoreDone("deleteSession", sessionId, <<>>, r.ret, NoSession)
  /\ UNCHANGED <<entry, ai, batchVars, httpVars, hookVars, enhVars, now, storeCreates,
                 csvVars, splitVars, labelerVars, viewerVars>>

NextStore ==
  \/ Tick
  \/ CreateSession
  \/ UpdateSessionResults
  \/ CompleteSession
  \/ GetSession
  \/ DeleteSession

SpecStore == Init /\ [][NextStore]_vars

\* ------------------------------------------------------------ the CSV export alone

\* The results exported: a plain one, one whose label and reasoning hold quotes, a
\* comma and a line break, and the fallback of a failed chunk.
CsvResults ==
  {MkResult("item-0", "Issue Type: Bug", 92, "cites the text", "", FALSE, FALSE),
   MkResult("item-1", "Tone: \"Formal\"", 69, "says \"hi\",\nthen leaves", "", TRUE, FALSE),
   BatchFallback("item-2", "Unexpected token")}

InitCsv ==
  /\ entry = "none"
  /\ ai = "any"
  /\ BatchIdle
  /\ HttpIdle
  /\ HookIdle
  /\ EnhancerIdle
  /\ StoreIdle
  /\ SplitIdle
  /\ LabelerIdle
  /\ ViewerIdle
  /\ csvResults \in UNION {[1..l -> CsvResults] : l \in 0..MaxCsvRows}
  /\ csvBy = "none"
  /\ csv = ""

\* The labeling flow exports the hook's results.
ExportToCsv ==
  /\ csvBy = "none"
  /\ csvBy' = "hook"
  /\ csv' = exportToCsv(csvResults)
  /\ UNCHANGED <<entry, ai, batchVars, httpVars, hookVars, enhVars, storeVars, splitVars,
                 labelerVars, viewerVars, csvResults>>

\* The project viewer exports the results of the current project.
HandleExport ==
  /\ csvBy = "none"
  /\ csvBy' = "viewer"
  /\ csv' = handleExport(csvResults)
  /\ UNCHANGED <<entry, ai, batchVars, httpVars, hookVars, enhVars, storeVars, splitVars,
                 labelerVars, viewerVars, csvResults>>

NextCsv == ExportToCsv \/ HandleExport

SpecCsv == InitCsv /\ [][NextCsv]_vars

\* ------------------------------------------------------------ the splitting loop alone

InitSplit ==
  /\ entry = "none"
  /\ ai = "any"
  /\ BatchIdle
  /\ HttpIdle
  /\ HookIdle
  /\ EnhancerIdle
  /\ StoreIdle
  /\ CsvIdle
  /\ LabelerIdle
  /\ ViewerIdle
  /\ \E n \in 0..MaxSplitItems : splitItems = ItemIds(n)
  /\ splitSize \in 1..MaxSplitBatchSize
  /\ splitI = 0
  /\ batches = <<>>

\* One iteration of for (let i = 0; i < items.length; i += batchSize).
PushBatch ==
  /\ splitI < Len(splitItems)
  /\ batches' = Append(batches, Slice(splitItems, splitI, splitI + splitSize))
  /\ splitI' = splitI + splitSize
  /\ UNCHANGED <<entry, ai, batchVars, httpVars, hookVars, enhVars, storeVars, csvVars,
                 splitItems, splitSize, labelerVars, viewerVars>>

SpecSplit == InitSplit /\ [][PushBatch]_vars

\* ------------------------------------------------------------ the Coverage Enhancer alone

\* The taxonomies postProcessResults is applied with, the plain one first.
EnhancerTaxonomies ==
  <<<<IssueType, Urgency>>, <<IssueType>>, <<Urgency, UrgencySLA>>, <<IssueType, Urgency, Tone>>>>

\* The results a result list handed to postProcessResults is made of: labels of the
\* inference paths and the fallback of a failed chunk.
EnhancerResults ==
  {ItemFromObject(id, o, DirectCategories).val : id \in Range(ItemIds(2)), o \in {ObjHi, ObjLo}}
    \cup {BatchFallback(id, "Unexpected token") : id \in Range(ItemIds(2))}

ResultLists == UNION {[1..l -> EnhancerResults] : l \in 0..MaxResults}

InitEnhancer ==
  /\ entry = "none"
  /\ ai = "any"
  /\ BatchIdle
  /\ HttpIdle
  /\ HookIdle
  /\ StoreIdle
  /\ CsvIdle
  /\ SplitIdle
  /\ LabelerIdle
  /\ ViewerIdle
  /\ \E k \in 1..Len(EnhancerTaxonomies) : enhTax = EnhancerTaxonomies[k]
  /\ enhOut \in ResultLists
  /\ enhPrev = <<>>
  /\ enhPasses = 0

\* postProcessResults is applied to its own latest value.
EnhancerPass ==
  /\ enhPasses < MaxPasses
  /\ enhPrev' = enhOut
  /\ enhOut' = postProcessResults(enhOut, enhTax)
  /\ enhPasses' = enhPasses + 1
  /\ UNCHANGED <<entry, ai, batchVars, httpVars, hookVars, enhTax, storeVars, csvVars,
                 splitVars, labelerVars, viewerVars>>

SpecEnhancer == InitEnhancer /\ [][EnhancerPass]_vars

\* ------------------------------------------------------------ the Reasoning Backfill alone

\* A label of the category whose type holds a colon, as the prompt asks for it:
\* 'Category: Option'.
ObjSLA == ModelObj(JStr("Urgency: SLA: Breached"), JNum(80), JStr("cites the text"), Undef)

\* The taxonomies of the hook, one whose second category has no option, and one
\* that declares the same category twice.
BackfillTaxonomies ==
  Taxonomies \cup {<<IssueType, Tone>>, <<IssueType, Urgency, Urgency>>}

\* What the inference call for one item ends in.
BackfillOutcomes ==
  {Outcome("throw", NoObj, <<>>), Outcome("json", ObjHi, <<>>), Outcome("json", ObjLo, <<>>),
   Outcome("json", ObjSLA, <<>>)}

\* The results of POST /api/label for a dataset of at most five items: batchSize is
\* 1, so each item went through labelDataItem.
ServerResults(ids, tax) ==
  {[i \in 1..Len(ids) |-> labelDataItem(ids[i], outs[i], ApiCategories(tax))] :
     outs \in [1..Len(ids) -> BackfillOutcomes]}

\* labelData at the moment the reply of POST /api/label is in hand.
InitBackfill ==
  /\ entry = "hook"
  /\ ai = "any"
  /\ BatchIdle
  /\ EnhancerIdle
  /\ StoreIdle
  /\ CsvIdle
  /\ SplitIdle
  /\ LabelerIdle
  /\ ViewerIdle
  /\ \E n \in 1..MaxBackfillItems, tax \in BackfillTaxonomies :
       /\ data = ItemIds(n)
       /\ taxonomy = tax
       /\ req = Request("object", "array", n, "object", TRUE, "array", ApiCategories(tax))
       /\ \E rs \in ServerResults(ItemIds(n), tax) : httpBody = BatchResult(rs, ItemIds(n))
  /\ pcH = "responded"
  /\ httpStatus = 200
  /\ pcK = "fetching"
  /\ working = <<>>
  /\ queue = <<>>
  /\ qi = 1
  /\ backfillCalls = <<>>
  /\ backfillLog = <<>>
  /\ hookResults = Null
  /\ hookError = ""
  /\ isProcessing = TRUE
  /\ edits = 0

NextBackfill == Receive \/ BackfillCall \/ BackfillItem \/ Store

SpecBackfill == InitBackfill /\ [][NextBackfill]_vars

\* ------------------------------------------------------------ DataLabeler

\* stepOrder of goToStep
StepOrder == <<"upload", "intent", "processing", "review">>

\* stepOrder.indexOf(step)
IndexOf(step) == CHOOSE i \in 1..Len(StepOrder) : StepOrder[i] = step

\* goToStep(step): the value of currentStep after it.
goToStep(current, step) ==
  IF step = "processing" THEN current
  ELSE IF IndexOf(step) <= IndexOf(current) \/ IndexOf(step) = IndexOf(current) + 1
  THEN step
  ELSE current

\* goBack(): the value of currentStep after it.
goBack(current) ==
  IF current = "intent" THEN goToStep(current, "upload")
  ELSE IF current = "review" THEN goToStep(current, "intent")
  ELSE current

\* updatedResults of handleUpdateLabel, in DataLabeler and in ProjectViewer: every
\* result of the item gets the label, needsReview false and confidence 100.
updatedResults(rs, itemId, newLabel) ==
  [i \in 1..Len(rs) |->
     IF rs[i].itemId = itemId
     THEN [rs[i] EXCEPT !.label = newLabel, !.needsReview = FALSE, !.confidence = 100]
     ELSE rs[i]]

\* The taxonomy captured in the intent step.
LabelerTaxonomies == {<<IssueType, Urgency>>}

\* The labels a reviewer can save for a result: 'Category: Option' for the options
\* of the category the result's label names.
LabelChoices(tax, label) ==
  UNION {{tax[c].type \o ": " \o tax[c].options[o] : o \in 1..Len(tax[c].options)} :
           c \in {d \in 1..Len(tax) : tax[d].type = LabelPrefix(label)}}

\* The loop over itemsToProcess from entry i on, every completion call failing or
\* every call answering every label asked about with the same value.
RECURSIVE BackfillAll(_, _, _, _)
BackfillAll(rs, entries, failed, i) ==
  IF i > Len(entries) THEN rs
  ELSE BackfillAll(
         BackfillLabels(rs, entries[i].labels, failed,
                        [l \in LabelsAsked(entries[i]) |-> ValueSure], 1),
         entries, failed, i + 1)

\* What labelData(data, intent) returns when the backend labels every item with
\* confidence: the server's results through the Coverage Enhancer and the
\* Reasoning Backfill.
LabelDataResults(ids, tax) ==
  LET server == [i \in 1..Len(ids) |->
                   labelDataItem(ids[i], Outcome("json", ObjHi, <<>>), ApiCategories(tax))]
      processed == postProcessResults(server, tax)
  IN {Stored(BatchResult(server, ids),
             BackfillAll(processed, ItemsToProcess(processed, ids), failed, 1)) :
        failed \in BOOLEAN}

\* A handleIntentCaptured call that awaits labelData: the project it created, and
\* the data and the taxonomy it was called with.
Run(project, runData, tax) == [project |-> project, data |-> runData, intent |-> tax]

\* A sequence without its k-th element.
Without(seq, k) == SubSeq(seq, 1, k - 1) \o SubSeq(seq, k + 1, Len(seq))

\* A handleUpdateLabel call: the row of the result the reviewer edited, the
\* arguments, and the results persisted and held by the hook before the call.
Edit(row, itemId, newLabel, storedBefore, hookBefore) ==
  [row |-> row, itemId |-> itemId, newLabel |-> newLabel, storedBefore |-> storedBefore,
   hookBefore |-> hookBefore]

\* What no action of the DataLabeler changes.
labelerFrame ==
  <<entry, ai, batchVars, httpVars, taxonomy, data, pcK, working, queue, qi, backfillCalls,
    backfillLog, edits, enhVars, storeOp, storePrev, storeOps, storeCreates, splitVars,
    viewerVars>>

\* handleDataUploaded: Continue in the upload step, with at least one item.
HandleDataUploaded ==
  /\ currentStep = "upload"
  /\ \E n \in 1..MaxLabelerItems : labelerData' = ItemIds(n)
  /\ currentStep' = "intent"
  /\ UNCHANGED <<labelerIntent, labelResults, currentProjectId, runs, runsStarted, editLog,
                 hookResults, hookError, isProcessing, now, storedRecords, storedSessions,
                 csvVars, labelerFrame>>

\* handleIntentCaptured up to its await: Continue in the intent step with a valid
\* configuration.  The project is created and labelData is called; the clock has
\* moved on when the next event of the page is handled.
HandleIntentCaptured ==
  /\ currentStep = "intent"
  /\ runsStarted < MaxRuns
  /\ now <= MaxClock
  /\ \E tax \in LabelerTaxonomies :
       LET r == createSession(storedRecords, storedSessions, "Project", labelerData, tax,
                              now, now)
       IN /\ labelerIntent' = tax
          /\ storedRecords' = r.records
          /\ storedSessions' = r.sessions
          /\ currentProjectId' = r.ret.id
          /\ runs' = Append(runs, Run(r.ret.id, labelerData, tax))
  /\ currentStep' = "processing"
  /\ isProcessing' = TRUE
  /\ hookError' = ""
  /\ runsStarted' = runsStarted + 1
  /\ now' = now + 1
  /\ UNCHANGED <<labelerData, labelResults, editLog, hookResults, csvVars, labelerFrame>>

\* The labelData call of a run returns and handleIntentCaptured goes on: with a
\* result, labelResults is set and the results are saved into the run's project;
\* the step becomes "review" either way.
LabelDataReturns ==
  /\ \E k \in 1..Len(runs) :
       /\ \E result \in LabelDataResults(runs[k].data, runs[k].intent) \cup {Null} :
            IF IsNull(result)
            THEN /\ hookError' = "Failed to process data"
                 /\ UNCHANGED <<hookResults, labelResults, storedRecords, storedSessions,
                                editLog>>
            ELSE LET r == updateSessionResults(storedRecords, storedSessions,
                                               runs[k].project, result.results, now)
                 IN /\ hookResults' = result
                    /\ labelResults' = result.results
                    /\ storedRecords' = r.records
                    /\ storedSessions' = r.sessions
                    /\ editLog' = <<>>
                    /\ UNCHANGED hookError
       /\ runs' = Without(runs, k)
  /\ isProcessing' = FALSE
  /\ currentStep' = "review"
  /\ UNCHANGED <<labelerData, labelerIntent, currentProjectId, runsStarted, now, csvVars,
                 labelerFrame>>

\* A click on the heading of a step: goToStep(step).
GoToStep ==
  /\ \E step \in Range(StepOrder) : currentStep' = goToStep(currentStep, step)
  /\ UNCHANGED <<labelerData, labelerIntent, labelResults, currentProjectId, runs,
                 runsStarted, editLog, hookResults, hookError, isProcessing, now,
                 storedRecords, storedSessions, csvVars, labelerFrame>>

\* The Back button, shown in the intent and review steps: goBack().
GoBack ==
  /\ currentStep \notin {"upload", "processing"}
  /\ currentStep' = goBack(currentStep)
  /\ UNCHANGED <<labelerData, labelerIntent, labelResults, currentProjectId, runs,
                 runsStarted, editLog, hookResults, hookError, isProcessing, now,
                 storedRecords, storedSessions, csvVars, labelerFrame>>

\* handleUpdateLabel(itemId, newLabel), called by DataReview for a row of
\* labelResults: updateLabel of the hook, then the results mapped from labelResults
\* are saved into the current project.
HandleUpdateLabel ==
  /\ currentStep = "review"
  /\ hookError = ""
  /\ Len(labelResults) > 0
  /\ Len(editLog) < MaxLabelEdits
  /\ \E row \in 1..Len(labelResults) :
     \E newLabel \in LabelChoices(labelerIntent, labelResults[row].label) :
       LET itemId == labelResults[row].itemId
           r == updateSessionResults(storedRecords, storedSessions, currentProjectId,
                                     updatedResults(labelResults, itemId, newLabel), now)
       IN /\ IF IsNull(hookResults)
             THEN UNCHANGED hookResults
             ELSE hookResults' =
                    [hookResults EXCEPT
                       !.results = UpdatedLabels(hookResults.results, itemId, newLabel),
                       !.reviewNeeded =
                          CountReview(UpdatedLabels(hookResults.results, itemId, newLabel))]
          /\ IF currentProjectId # "" /\ Len(labelResults) > 0
             THEN /\ storedRecords' = r.records
                  /\ storedSessions' = r.sessions
             ELSE UNCHANGED <<storedRecords, storedSessions>>
          /\ editLog' =
               Append(editLog,
                      Edit(row, itemId, newLabel,
                           IF currentProjectId = "" THEN <<>>
                           ELSE storedRecords[currentProjectId].results,
                           hookResults.results))
  /\ UNCHANGED <<currentStep, labelerData, labelerIntent, labelResults, currentProjectId,
                 runs, runsStarted, hookError, isProcessing, now, csvVars, labelerFrame>>

\* handleExport of the DataLabeler, the Export Labels button of the review step:
\* exportToCsv of the hook, and the current project is marked completed.
LabelerHandleExport ==
  /\ currentStep = "review"
  /\ csvBy = "none"
  /\ csvResults' = hookResults.results
  /\ csvBy' = "hook"
  /\ csv' = exportToCsv(hookResults.results)
  /\ IF currentProjectId # ""
     THEN LET r == completeSession(storedRecords, storedSessions, currentProjectId, now)
          IN /\ storedRecords' = r.records
             /\ storedSessions' = r.sessions
     ELSE UNCHANGED <<storedRecords, storedSessions>>
  /\ UNCHANGED <<currentStep, labelerData, labelerIntent, labelResults, currentProjectId,
                 runs, runsStarted, editLog, hookResults, hookError, isProcessing, now,
                 labelerFrame>>

NextLabeler ==
  \/ HandleDataUploaded
  \/ HandleIntentCaptured
  \/ LabelDataReturns
  \/ GoToStep
  \/ GoBack
  \/ HandleUpdateLabel
  \/ LabelerHandleExport

SpecLabeler == Init /\ [][NextLabeler]_vars

\* ------------------------------------------------------------ ProjectViewer

\* What no action of the ProjectViewer changes.
viewerFrame ==
  <<entry, ai, batchVars, httpVars, hookVars, enhVars, now, storeOp, storePrev, storeOps,
    storeCreates, csvVars, splitVars, labelerVars>>

\* The effect on mount: loadProject(projectId), loadSession of the storage hook.
LoadProject ==
  /\ ~currentProject.present
  /\ \E projectId \in SessionIds : currentProject' = getSession(storedRecords, projectId)
  /\ UNCHANGED <<viewerLog, storedRecords, storedSessions, viewerFrame>>

\* handleUpdateLabel(itemId, newLabel) of the ProjectViewer, called by DataReview
\* for a row of currentProject.results: the results mapped from them are saved and
\* the session saved becomes currentProject.
ViewerHandleUpdateLabel ==
  /\ currentProject.present
  /\ Len(viewerLog) < MaxLabelEdits
  /\ \E row \in 1..Len(currentProject.results) :
     \E newLabel \in LabelChoices(currentProject.intent, currentProject.results[row].label) :
       LET itemId == currentProject.results[row].itemId
           r == updateSessionResults(storedRecords, storedSessions, currentProject.id,
                                     updatedResults(currentProject.results, itemId, newLabel),
                                     now)
       IN /\ storedRecords' = r.records
          /\ storedSessions' = r.sessions
          /\ currentProject' = IF r.ret.present THEN r.ret ELSE currentProject
          /\ viewerLog' =
               Append(viewerLog,
                      Edit(row, itemId, newLabel,
                           storedRecords[currentProject.id].results, <<>>))
  /\ UNCHANGED viewerFrame

\* The review of a project: the DataLabeler in its review step after one run that
\* returned results (Init, handleDataUploaded, handleIntentCaptured and the return
\* of labelData), and a ProjectViewer not yet mounted.
InitReview ==
  /\ entry = "none"
  /\ ai = "any"
  /\ BatchIdle
  /\ HttpIdle
  /\ EnhancerIdle
  /\ CsvIdle
  /\ SplitIdle
  /\ ViewerIdle
  /\ taxonomy = <<>>
  /\ data = <<>>
  /\ pcK = "idle"
  /\ working = <<>>
  /\ queue = <<>>
  /\ qi = 1
  /\ backfillCalls = <<>>
  /\ backfillLog = <<>>
  /\ hookError = ""
  /\ isProcessing = FALSE
  /\ edits = 0
  /\ now = 1
  /\ storeOp = NoStoreOp
  /\ storePrev = [records |-> [id \in SessionIds |-> NoSession], sessions |-> <<>>]
  /\ storeOps = 0
  /\ storeCreates = 0
  /\ \E n \in 1..MaxLabelerItems, tax \in LabelerTaxonomies :
     \E result \in LabelDataResults(ItemIds(n), tax) :
       LET created == createSession([id \in SessionIds |-> NoSession], <<>>, "Project",
                                    ItemIds(n), tax, 0, 0)
           saved == updateSessionResults(created.records, created.sessions, SessionId(0),
                                         result.results, 1)
       IN /\ storedRecords = saved.records
          /\ storedSessions = saved.sessions
          /\ hookResults = result
          /\ labelerData = ItemIds(n)
          /\ labelerIntent = tax
          /\ labelResults = result.results
  /\ currentStep = "review"
  /\ currentProjectId = SessionId(0)
  /\ runs = <<>>
  /\ runsStarted = 1
  /\ editLog = <<>>

NextReview ==
  \/ HandleUpdateLabel
  \/ LabelerHandleExport
  \/ LoadProject
  \/ ViewerHandleUpdateLabel

SpecReview == InitReview /\ [][NextReview]_vars

\* ------------------------------------------------------------ claims

\* The chunks of the run, in order.
AllChunks == [k \in 1..NumChunks(items, batchSize) |-> k]

\* The results of rs that belong to an item.
ResultsOf(rs, id) == SelectSeq(rs, LAMBDA r : r.itemId = id)

\* The fallback of a failed chunk or item.
IsFallback(r) == r.label = ErrorLabel /\ r.confidence = 0 /\ r.needsReview

\* C1: labelDataBatch never aborts on a chunk failure.  No exception escapes the
\* chunk loop; while the call runs it can take a step; after a failed chunk that is
\* not the last, the inference call of the next chunk has been issued or is the
\* next thing the loop does; and the call returns a BatchLabelingResult after one
\* inference call for every chunk.
C1_ChunkFailureNeverFatal ==
  /\ pc # "threw"
  /\ pc \in {"loop", "await"} => ENABLED (IssueCall \/ Resolve \/ Return)
  /\ \A k \in failedChunks :
       k < NumChunks(items, batchSize) =>
         (k + 1) \in Range(callLog) \/ (pc = "loop" /\ bi = k + 1)
  /\ pc = "returned" => ~IsNull(ret) /\ callLog = AllChunks

\* A run with chunks of five whose first chunk failed and which returned after the
\* call of the second chunk.
C1_Witness ==
  /\ pc = "returned"
  /\ batchSize = ApiBatchSize
  /\ 1 \in failedChunks
  /\ callLog = <<1, 2>>

\* C2: in the output of labelDataBatch every item of a chunk that raised an
\* exception has exactly one result, and it is the fallback (label "Error: Needs
\* Manual Review", confidence 0, needsReview).
C2_FailedChunkHasOnlyFallbacks ==
  pc = "returned" =>
    \A k \in failedChunks : \A id \in Range(Chunk(items, batchSize, k)) :
      /\ Len(ResultsOf(ret.results, id)) = 1
      /\ IsFallback(ResultsOf(ret.results, id)[1])

\* C3: every input item id is the itemId of at least one result of the output of
\* labelDataBatch.
C3_EveryItemHasResult ==
  pc = "returned" =>
    \A id \in Range(items) : \E i \in 1..Len(ret.results) : ret.results[i].itemId = id

\* A request the endpoint must reject: data missing (no readable body included), no
\* array, empty or longer than 100, intent missing, or labelCategories no non-empty
\* array.
InvalidRequest(r) ==
  \/ r.body # "object"
  \/ r.data # "array"
  \/ r.dataLen = 0
  \/ r.dataLen > MaxDataLength
  \/ r.intent = "missing"
  \/ r.catsKind # "array"
  \/ Len(r.labelCategories) = 0

\* labelDataBatch is invoked only for 1..100 items and a non-empty labelCategories.
InvokedOnlyWhenValid ==
  pc # "idle" =>
    /\ req.data = "array" /\ 1 <= req.dataLen /\ req.dataLen <= MaxDataLength
    /\ req.catsKind = "array" /\ Len(req.labelCategories) > 0
    /\ Len(items) = req.dataLen

\* C4 as claimed: POST /api/label rejects every invalid request with status 400 and
\* without an inference call, and invokes labelDataBatch only for 1..100 items and
\* a non-empty labelCategories.
C4_InvalidRequestGets400 ==
  entry = "http" =>
    /\ InvalidRequest(req) =>
         /\ callLog = <<>> /\ pc = "idle"
         /\ pcH = "responded" => httpStatus = 400
    /\ InvokedOnlyWhenValid

\* C4 amended: POST /api/label rejects every invalid request without an inference
\* call, with status 400 when the body is a JSON object and with status 500 when
\* the body is no JSON or the JSON value null; it invokes labelDataBatch only for
\* 1..100 items and a non-empty labelCategories.
C4_InvalidRequestRejected ==
  entry = "http" =>
    /\ InvalidRequest(req) =>
         /\ callLog = <<>> /\ pc = "idle"
         /\ pcH = "responded" => httpStatus = IF req.body = "object" THEN 400 ELSE 500
    /\ InvokedOnlyWhenValid

\* A request that is valid but for its 101 items has been answered with 400, no
\* inference call issued.
C4_Witness ==
  /\ pcH = "responded"
  /\ httpStatus = 400
  /\ req.body = "object" /\ req.data = "array" /\ req.dataLen = MaxDataLength + 1
  /\ req.intent = "object" /\ req.described
  /\ req.catsKind = "array" /\ Len(req.labelCategories) > 0
  /\ callLog = <<>>

\* The results of the orchestrator: its list while it runs and what it returned.
OrchestratorResults == Range(results) \cup Range(ret.results)

\* The results at every stage: the orchestrator's, the response's, the Coverage
\* Enhancer's and the Reasoning Backfill's working list, and the hook's results.
PipelineResults ==
  OrchestratorResults \cup Range(httpBody.results) \cup Range(working)
    \cup Range(hookResults.results)

\* C5: in every LabelResult at any stage of the pipeline, confidence < 70 implies
\* needsReview; in the orchestrator's output needsReview holds exactly when
\* confidence < 70.
C5_LowConfidenceNeedsReview ==
  /\ \A r \in PipelineResults : r.confidence < ReviewThreshold => r.needsReview
  /\ \A r \in OrchestratorResults : r.needsReview <=> r.confidence < ReviewThreshold

\* After a backfill and an updateLabel call the hook holds a result a human
\* verified and a result below the threshold.
C5_Witness ==
  /\ edits > 0
  /\ backfillCalls # <<>>
  /\ \E r \in Range(hookResults.results) : r.confidence < ReviewThreshold /\ r.needsReview
  /\ \E r \in Range(hookResults.results) : r.confidence = 100 /\ ~r.needsReview

\* C6: reviewNeeded is the number of results with needsReview, in the result
\* labelDataBatch returns and in the hook's results after labelData and after each
\* updateLabel.
C6_ReviewNeededIsDerived ==
  /\ pc = "returned" => ret.reviewNeeded = CountReview(ret.results)
  /\ ~IsNull(hookResults) => hookResults.reviewNeeded = CountReview(hookResults.results)

\* The number of results below the review threshold.
CountLowConfidence(rs) == Cardinality({i \in 1..Len(rs) : rs[i].confidence < ReviewThreshold})

\* C7: in the result labelData stores after backfill, reviewNeeded is the number
\* of results whose confidence is below 70.
C7_ReviewNeededCountsLowConfidence ==
  (pcK = "done" /\ edits = 0 /\ ~IsNull(hookResults)) =>
    hookResults.reviewNeeded = CountLowConfidence(hookResults.results)

\* C8: after the Coverage Enhancer ran with more than one category, every item with
\* a result has, for every declared category, a result whose label prefix is the
\* category's type.
C8_EveryCategoryCovered ==
  (enhPasses = 1 /\ Len(enhTax) > 1) =>
    \A id \in Range(GroupKeys(enhOut)) : \A c \in 1..Len(enhTax) :
      \E i \in 1..Len(enhOut) :
        enhOut[i].itemId = id /\ LabelPrefix(enhOut[i].label) = enhTax[c].type

\* How often a result occurs in a list.
Occurrences(rs, r) == Cardinality({i \in 1..Len(rs) : rs[i] = r})

\* C9: the Coverage Enhancer is idempotent: applied to its own value it returns a
\* list of the same length with the same results.
C9_EnhancerIdempotent ==
  enhPasses >= 2 =>
    /\ Len(enhOut) = Len(enhPrev)
    /\ \A r \in Range(enhOut) \cup Range(enhPrev) :
         Occurrences(enhOut, r) = Occurrences(enhPrev, r)

\* Label Repair as the specification states it: a label "X: X" becomes
\* "<category>: X" for the first descriptor that contains X whatever the case, any
\* other label stays.
RepairedAsSpecified(label, categories) ==
  LET parts == TrimmedParts(label)
  IN IF Len(parts) = 2 /\ parts[1] = parts[2] /\ FindCategory(categories, parts[1]) # 0
     THEN Trim(SplitColon(categories[FindCategory(categories, parts[1])])[1])
            \o ": " \o parts[2]
     ELSE label

\* Every entry of a JSON array is null or an object with a string label.
StringLabels(arr) == \A i \in 1..Len(arr) : arr[i].null \/ arr[i].obj.label.k = "str"

\* C10: both inference paths apply Label Repair: the result of an item the model
\* labelled carries the repaired label ("Bug: Bug" becomes "Issue Type: Bug",
\* "Issue Type: Bug" stays).
C10_LabelRepairApplied ==
  (pc \in {"loop", "returned"} /\ lastOutcome.kind = "json") =>
    LET chunk == Chunk(items, batchSize, bi - 1)
    IN IF Len(chunk) = 1
       THEN lastOutcome.obj.label.k = "str" =>
              results[Len(results)].label
                = RepairedAsSpecified(lastOutcome.obj.label.s, cats)
       ELSE StringLabels(lastOutcome.arr) =>
              \A i \in 1..Len(lastOutcome.arr) :
                ~lastOutcome.arr[i].null =>
                  \E r \in Range(results) :
                    /\ r.itemId = chunk[i]
                    /\ r.label = RepairedAsSpecified(lastOutcome.arr[i].obj.label.s, cats)

\* The ids that have a stored record.
RecordIds(records) == {id \in SessionIds : records[id].present}

\* The store operation that just returned was called on an existing session.
OnExisting(ops) == storeOp.op \in ops /\ storePrev.records[storeOp.id].present

\* The store operation that just returned was called with an id that has no record.
OnMissing(ops) == storeOp.op \in ops /\ ~storePrev.records[storeOp.id].present

\* The records of all sessions but one are what they were before the operation.
OtherRecordsKept(id) ==
  \A other \in SessionIds \ {id} : storedRecords[other] = storePrev.records[other]

\* C11: createSession allocates an id no existing session has, writes the full
\* record (results = [], status in_progress) under it, overwrites no record and
\* appends one metadata entry; after createSession calls only, the metadata list
\* has one entry per created session, no two with the same id, and every created
\* session has its record.
C11_CreateAllocatesFreshId ==
  /\ storeOp.op = "createSession" =>
       /\ ~storePrev.records[storeOp.id].present
       /\ storedRecords[storeOp.id] = storeOp.session
       /\ storeOp.session.results = <<>> /\ storeOp.session.status = "in_progress"
       /\ OtherRecordsKept(storeOp.id)
       /\ Len(storedSessions) = Len(storePrev.sessions) + 1
       /\ SubSeq(storedSessions, 1, Len(storePrev.sessions)) = storePrev.sessions
       /\ storedSessions[Len(storedSessions)].id = storeOp.id
  /\ storeCreates = storeOps =>
       /\ Len(storedSessions) = storeCreates
       /\ \A i, j \in 1..Len(storedSessions) :
            storedSessions[i].id = storedSessions[j].id => i = j
       /\ Cardinality(RecordIds(storedRecords)) = storeCreates

ByIdOps == {"getSession", "updateSessionResults", "completeSession", "deleteSession"}

\* The operation that just returned left the store as it was.
StoreKept ==
  /\ storedRecords = storePrev.records
  /\ storedSessions = storePrev.sessions

\* C14: every Session Store operation called with an id that has no record returns
\* null or false, throws nothing and leaves records and metadata list unchanged.
C14_MissIsNullOrFalse ==
  OnMissing(ByIdOps) =>
    /\ storeOp.ret \in {"null", "false"}
    /\ ~storeOp.threw
    /\ StoreKept

\* What holds of C14: an operation called with an id that has no record throws
\* nothing and leaves the store unchanged; getSession, updateSessionResults and
\* completeSession return null, deleteSession returns true.
C14_MissLeavesStoreUnchanged ==
  OnMissing(ByIdOps) =>
    /\ storeOp.ret = IF storeOp.op = "deleteSession" THEN "true" ELSE "null"
    /\ ~storeOp.threw
    /\ StoreKept

\* updateSessionResults was called with an id that has no record while another
\* session is stored.
C14_Witness ==
  /\ OnMissing({"updateSessionResults"})
  /\ storedSessions # <<>>

\* The records of a CSV text: it is cut at every line break outside double quotes;
\* a line break at the very end ends the last record.
CsvRecords(text) ==
  LET Quotes(i) == Cardinality({j \in 1..(i - 1) : CharAt(text, j) = "\""})
      Breaks == {i \in 1..Len(text) : CharAt(text, i) = "\n" /\ Quotes(i) % 2 = 0}
      Starts == {s \in {1} \cup {b + 1 : b \in Breaks} :
                   s <= Len(text) \/ \E b \in Breaks : b >= s}
      Nth(k) == CHOOSE s \in Starts : Cardinality({t \in Starts : t < s}) = k - 1
      EndOf(s) == IF \E b \in Breaks : b >= s
                  THEN (CHOOSE b \in Breaks : b >= s /\ \A c \in Breaks : c >= s => b <= c) - 1
                  ELSE Len(text)
  IN [k \in 1..Cardinality(Starts) |-> SubSeq(text, Nth(k), EndOf(Nth(k)))]

\* A record starts with a text.
StartsWith(record, text) ==
  Len(record) >= Len(text) /\ SubSeq(record, 1, Len(text)) = text

\* C15: every CSV export of a result list is the header row
\* ItemId,Label,Confidence,Reasoning,NeedsReview followed by one data row per result
\* in list order: re-parsed it has results.length data rows and 1 header row, for
\* every results.length >= 0.
C15_CsvHasHeaderAndRowPerResult ==
  csvBy # "none" =>
    LET records == CsvRecords(csv)
    IN /\ Len(records) = Len(csvResults) + 1
       /\ records[1] = "ItemId,Label,Confidence,Reasoning,NeedsReview"
       /\ \A i \in 1..Len(csvResults) :
            \/ StartsWith(records[i + 1], csvResults[i].itemId \o ",")
            \/ StartsWith(records[i + 1], Quoted(csvResults[i].itemId) \o ",")

\* The chunk an item belongs to.
ChunkOf(id) ==
  CHOOSE k \in 1..NumChunks(items, batchSize) : id \in Range(Chunk(items, batchSize, k))

\* The inference calls of the run that were issued and have not settled.
InFlight == Len(callLog) - (bi - 1)

\* C16: within one labelDataBatch run the chunks are processed in order and one at
\* a time.  The calls are issued for chunks 1, 2, ... in this order; at most one is
\* in flight, and one is exactly while the loop awaits; results exist only for
\* chunks whose iteration is over, in chunk order; and a failed chunk has its
\* fallbacks appended before the next call is issued.
C16_ChunksStrictlySequential ==
  pc # "idle" =>
    /\ callLog = [k \in 1..Len(callLog) |-> k]
    /\ InFlight \in {0, 1}
    /\ InFlight = 1 <=> pc = "await"
    /\ \A i \in 1..Len(results) : ChunkOf(results[i].itemId) < bi
    /\ \A i, j \in 1..Len(results) :
         i < j => ChunkOf(results[i].itemId) <= ChunkOf(results[j].itemId)
    /\ \A k \in failedChunks :
         /\ k < bi
         /\ \A id \in Range(Chunk(items, batchSize, k)) :
              \E r \in Range(results) : r.itemId = id /\ IsFallback(r)

\* The call of the second chunk of five is awaited with the results of the first
\* chunk appended.
C16_Witness ==
  /\ pc = "await"
  /\ bi = 2
  /\ batchSize = ApiBatchSize
  /\ results # <<>>
  /\ failedChunks = {}

\* The concatenation of a list of lists.
Flatten(lists) ==
  LET RECURSIVE From(_)
      From(k) == IF k > Len(lists) THEN <<>> ELSE lists[k] \o From(k + 1)
  IN From(1)

\* ceil(n / b)
CeilDiv(n, b) == CHOOSE c \in 0..n : c * b >= n /\ (c = 0 \/ (c - 1) * b < n)

\* C17: labelDataBatch splits n items with batchSize b >= 1 into ceil(n/b) chunks
\* that are consecutive slices in input order: every chunk but possibly the last
\* has b items, the last has 1..b items, and the chunks concatenated are the input.
\* While the loop runs, the chunks pushed so far are full and make up the items
\* before position i.
C17_SplitIsPartition ==
  LET n == Len(splitItems)
      done == IF splitI < n THEN splitI ELSE n
  IN /\ Flatten(batches) = SubSeq(splitItems, 1, done)
     /\ \A k \in 1..Len(batches) :
          /\ 1 <= Len(batches[k]) /\ Len(batches[k]) <= splitSize
          /\ (k < Len(batches) \/ splitI < n) => Len(batches[k]) = splitSize
     /\ splitI >= n =>
          /\ Len(batches) = CeilDiv(n, splitSize)
          /\ Flatten(batches) = splitItems
          /\ Len(batches) = NumChunks(splitItems, splitSize)
          /\ \A k \in 1..Len(batches) : batches[k] = Chunk(splitItems, splitSize, k)

\* Eleven items were split with batchSize 5 into chunks of 5, 5 and 1.
C17_Witness ==
  /\ Len(splitItems) = 11
  /\ splitSize = 5
  /\ splitI >= Len(splitItems)
  /\ Len(batches) = 3
  /\ Len(batches[3]) = 1

\* C18: the request handler calls labelDataBatch with batchSize 1 for at most 5
\* items and 5 for more, and the orchestrator takes the single-item path exactly
\* for the chunks of one item: a run over n <= 5 items makes n single-item calls,
\* a run over n > 5 items with n mod 5 = 1 labels the last chunk by the single-item
\* path and every other chunk by one batch call.
C18_PathFollowsChunkSize ==
  (entry = "http" /\ pc # "idle") =>
    LET n == req.dataLen
    IN /\ Len(items) = n
       /\ batchSize = IF n <= 5 THEN 1 ELSE 5
       /\ Len(pathLog) = Len(callLog)
       /\ \A k \in 1..Len(pathLog) :
            pathLog[k] = "single" <=> Len(Chunk(items, batchSize, callLog[k])) = 1
       /\ pc = "returned" =>
            /\ n <= 5 => pathLog = [k \in 1..n |-> "single"]
            /\ (n > 5 /\ n % 5 = 1) =>
                 pathLog = [k \in 1..((n - 1) \div 5 + 1) |->
                              IF k = (n - 1) \div 5 + 1 THEN "single" ELSE "batch"]
            /\ (n > 5 /\ n % 5 = 0) => pathLog = [k \in 1..(n \div 5) |-> "batch"]

\* A request with six items was answered after one batch call and one single-item
\* call.
C18_Witness ==
  /\ pcH = "responded"
  /\ httpStatus = 200
  /\ req.dataLen = 6
  /\ pathLog = <<"batch", "single">>

\* The label prefixes of the results of an item.
PrefixesOf(rs, id) == {LabelPrefix(rs[i].label) : i \in {j \in 1..Len(rs) : rs[j].itemId = id}}

\* The positions of the results synthesized for an item and a category.
SynthesizedFor(rs, id, cat) ==
  {i \in 1..Len(rs) :
     /\ rs[i].needsLLMReasoning
     /\ rs[i].itemId = id
     /\ rs[i].label = cat.type \o ": " \o cat.options[1]}

\* Every result with the needs-backfill flag was synthesized for a declared category
\* that has an option.
FlaggedAreSynthesized ==
  \A i \in 1..Len(enhOut) :
    enhOut[i].needsLLMReasoning =>
      \E c \in 1..Len(enhTax) :
        /\ Len(enhTax[c].options) > 0
        /\ i \in SynthesizedFor(enhOut, enhOut[i].itemId, enhTax[c])
        /\ enhOut[i].confidence = 0 /\ enhOut[i].needsReview

\* C19: with more than one category declared, the Coverage Enhancer synthesizes
\* exactly one result (first option, confidence 0, needsReview, flagged) for every
\* item and every declared category with an option whose type is not among the
\* item's label prefixes, and none for a category the item already has.
C19_OneSynthesizedPerAbsentCategory ==
  (enhPasses = 1 /\ Len(enhTax) > 1) =>
    /\ FlaggedAreSynthesized
    /\ \A id \in Range(GroupKeys(enhPrev)) : \A c \in 1..Len(enhTax) :
         Len(enhTax[c].options) > 0 =>
           Cardinality(SynthesizedFor(enhOut, id, enhTax[c]))
             = IF enhTax[c].type \in PrefixesOf(enhPrev, id) THEN 0 ELSE 1

\* What holds of C19: the Coverage Enhancer synthesizes only for a declared category
\* with an option whose type is not among the item's label prefixes, at most one per
\* item and category, and nothing when one category is declared.
C19_SynthesizesOnlyForAbsent ==
  enhPasses = 1 =>
    /\ FlaggedAreSynthesized
    /\ Len(enhTax) = 1 => Len(enhOut) = Len(enhPrev)
    /\ \A id \in Range(GroupKeys(enhPrev)) : \A c \in 1..Len(enhTax) :
         Len(enhTax[c].options) > 0 =>
           Cardinality(SynthesizedFor(enhOut, id, enhTax[c]))
             <= IF enhTax[c].type \in PrefixesOf(enhPrev, id) THEN 0 ELSE 1

\* Two categories are declared, the results of one item cover the first only, and
\* one result was appended, for the second.
C19_Witness ==
  /\ enhPasses = 1
  /\ enhTax = <<IssueType, Urgency>>
  /\ Len(enhPrev) = 1
  /\ PrefixesOf(enhPrev, enhPrev[1].itemId) = {"Issue Type"}
  /\ Len(enhOut) = 2
  /\ enhOut[2].label = "Urgency: High" /\ enhOut[2].needsLLMReasoning

\* C20: the Coverage Enhancer is a stable merge: its output without the synthesized
\* results is its input in the input's order, also when the results of an item are
\* not contiguous, and the synthesized results of an item come after the item's
\* original results.
C20_EnhancerIsStableMerge ==
  enhPasses = 1 =>
    /\ SelectSeq(enhOut, LAMBDA r : ~r.needsLLMReasoning) = enhPrev
    /\ \A i, j \in 1..Len(enhOut) :
         (enhOut[i].itemId = enhOut[j].itemId
            /\ enhOut[i].needsLLMReasoning /\ ~enhOut[j].needsLLMReasoning) => j < i

\* The result list generateReasoningForLabels was called with.
BackfillInput == postProcessResults(httpBody.results, taxonomy)

\* The positions of the flagged results of an item in a result list.
FlaggedOf(rs, id) == SelectSeq(FlaggedPositions(rs), LAMBDA i : rs[i].itemId = id)

\* The items that own a flagged result.
FlagOwners(rs) == {rs[i].itemId : i \in Range(FlaggedPositions(rs))}

\* Whether generateReasoningForLabels has been entered.
BackfillRan == pcK = "backfill" \/ (pcK = "done" /\ Len(queue) > 0)

\* C21: Reasoning Backfill issues one completion call per distinct item that owns a
\* flagged result, its prompt listing every flagged label of the item, none for an
\* item without flagged results, and the call for the next item is issued only
\* after the previous call has settled and its results have been updated.
C21_OneCallPerFlaggedItemInSequence ==
  /\ Range(backfillCalls) \subseteq FlagOwners(BackfillInput)
  /\ \A j, k \in 1..Len(backfillCalls) : backfillCalls[j] = backfillCalls[k] => j = k
  /\ pcK = "done" /\ httpStatus = 200 => Range(backfillCalls) = FlagOwners(BackfillInput)
  /\ \A k \in 1..Len(backfillCalls) :
       /\ queue[k].itemId = backfillCalls[k]
       /\ [i \in 1..Len(queue[k].labels) |-> queue[k].labels[i].label]
            = [i \in 1..Len(FlaggedOf(BackfillInput, backfillCalls[k])) |->
                 BackfillInput[FlaggedOf(BackfillInput, backfillCalls[k])[i]].label]
  /\ Len(backfillCalls) - Len(backfillLog) \in {0, 1}
  /\ \A k \in 1..Len(backfillLog) : backfillLog[k].itemId = backfillCalls[k]
  /\ Len(backfillLog) > 0 => working = backfillLog[Len(backfillLog)].after
  /\ BackfillRan => qi = Len(backfillLog) + 1

\* Backfill has returned after one call, for the second of two items: the first
\* item owns no flagged result.
C21_Witness ==
  /\ pcK = "done"
  /\ Len(data) = 2
  /\ backfillCalls = <<data[2]>>
  /\ Len(backfillLog) = 1
  /\ FlaggedOf(BackfillInput, data[1]) = <<>>
  /\ Len(FlaggedOf(BackfillInput, data[2])) = 1

\* The sentence the catch block of the backfill loop writes as reasoning.
GenericReasoning == "This label was suggested for this content"

\* Whether the results at the positions other than those in touched are the same in
\* both lists.
SameExcept(before, after, touched) ==
  /\ Len(after) = Len(before)
  /\ \A i \in 1..Len(before) : i \notin touched => after[i] = before[i]

\* Whether no two results of a list have the same item and label.
DistinctLabels(rs) ==
  \A i, j \in 1..Len(rs) : rs[i].itemId = rs[j].itemId /\ rs[i].label = rs[j].label => i = j

\* What a failed round-trip leaves of a flagged result.
FailedAsSpecified(old, new) ==
  /\ new.itemId = old.itemId
  /\ new.label = old.label
  /\ new.reasoning = GenericReasoning
  /\ new.confidence = IF old.confidence > 60 THEN old.confidence ELSE 60
  /\ new.needsReview
  /\ ~new.needsLLMReasoning

\* The failed round-trip of entry k of backfillLog did what C22 states.
FailureHandled(k) ==
  LET e == backfillLog[k]
      mine == Range(FlaggedOf(e.before, e.itemId))
  IN /\ \A i \in mine : FailedAsSpecified(e.before[i], e.after[i])
     /\ SameExcept(e.before, e.after, {i \in 1..Len(e.before) : e.before[i].itemId = e.itemId})

\* The failure of a round-trip did not end the backfill or labelData.
BackfillGoesOn ==
  /\ hookError = ""
  /\ pcK = "done" => Len(backfillLog) = Len(queue) /\ ~IsNull(hookResults)

\* C22: when the round-trip for an item fails, every flagged label of the item gets
\* the generic reasoning, confidence max(60, previous), needsReview and its flag
\* cleared; the results of other items are unchanged, the failure does not
\* propagate and backfill goes on with the next item.
C22_FailedRoundTripFallsBack ==
  /\ \A k \in 1..Len(backfillLog) : backfillLog[k].failed => FailureHandled(k)
  /\ BackfillGoesOn

\* C22, for result lists in which an item and a label name one result.
C22_FailedRoundTripFallsBackWhenDistinct ==
  /\ \A k \in 1..Len(backfillLog) :
       backfillLog[k].failed /\ DistinctLabels(backfillLog[k].before) => FailureHandled(k)
  /\ BackfillGoesOn

\* The round-trip of the first of two items failed, its placeholder holds the
\* fallback, and backfill has gone on to the second item and returned.
C22_Witness ==
  /\ pcK = "done"
  /\ Len(backfillLog) = 2
  /\ backfillLog[1].failed
  /\ ~backfillLog[2].failed
  /\ DistinctLabels(backfillLog[1].before)
  /\ \E i \in 1..Len(hookResults.results) :
       /\ hookResults.results[i].itemId = backfillLog[1].itemId
       /\ hookResults.results[i].reasoning = GenericReasoning
       /\ hookResults.results[i].confidence = 60

\* The reasoning, confidence and uncertainty a value of the response stands for.
AnswerReasoning(v) == v.reasoning.s

AnswerConfidence(v) == IF v.kind = "string" THEN 75 ELSE v.confidence.n

AnswerUncertainty(v) == IF v.kind = "string" THEN "" ELSE v.uncertainty.s

\* What a successful round-trip leaves of a flagged result whose label is a key of
\* the response.
AnsweredAsSpecified(old, new, v) ==
  /\ new.itemId = old.itemId
  /\ new.label = old.label
  /\ new.reasoning = AnswerReasoning(v)
  /\ new.confidence = AnswerConfidence(v)
  /\ new.uncertaintyExplanation = AnswerUncertainty(v)
  /\ ~new.needsLLMReasoning
  /\ new.needsReview = ((AnswerConfidence(v) < 70) \/ old.needsReview)
  /\ new.needsReview

\* The successful round-trip of entry k of backfillLog did what C23 states.
AnswerApplied(k) ==
  LET e == backfillLog[k]
  IN \A i \in Range(FlaggedOf(e.before, e.itemId)) :
       e.answer[e.before[i].label].kind # "absent"
         => AnsweredAsSpecified(e.before[i], e.after[i], e.answer[e.before[i].label])

\* C23: on a successful round-trip each flagged result whose label is a key of the
\* response is itself updated with the response's reasoning, confidence and
\* uncertainty (a bare string counting as reasoning with confidence 75), its flag is
\* cleared and needsReview is (confidence < 70) or its previous value, hence true.
C23_AnswerUpdatesFlaggedResult ==
  \A k \in 1..Len(backfillLog) : ~backfillLog[k].failed => AnswerApplied(k)

\* C23, for result lists in which an item and a label name one result.
C23_AnswerUpdatesFlaggedResultWhenDistinct ==
  \A k \in 1..Len(backfillLog) :
    ~backfillLog[k].failed /\ DistinctLabels(backfillLog[k].before) => AnswerApplied(k)

\* A round-trip answered with confidence 85 and one with a bare string: the
\* placeholders hold 85 and 75 and are still flagged for review.
C23_Witness ==
  /\ pcK = "done"
  /\ \E j, k \in 1..Len(backfillLog) :
       /\ ~backfillLog[j].failed /\ ~backfillLog[k].failed
       /\ DistinctLabels(backfillLog[j].before)
       /\ \E i \in Range(FlaggedOf(backfillLog[j].before, backfillLog[j].itemId)) :
            /\ backfillLog[j].answer[backfillLog[j].before[i].label] = ValueSure
            /\ hookResults.results[i].confidence = 85
            /\ hookResults.results[i].needsReview
       /\ \E i \in Range(FlaggedOf(backfillLog[k].before, backfillLog[k].itemId)) :
            /\ backfillLog[k].answer[backfillLog[k].before[i].label] = ValueString
            /\ hookResults.results[i].confidence = 75
            /\ hookResults.results[i].reasoning = "legacy text"

\* C29: when generateReasoningForLabels has returned, no result carries the
\* needsLLMReasoning flag, labels the response left out included.
C29_NoFlagLeftAfterBackfill ==
  pcK = "done" /\ httpStatus = 200 =>
    \A i \in 1..Len(hookResults.results) : ~hookResults.results[i].needsLLMReasoning

\* C30: generateReasoningForLabels returns a list of the length and order of its
\* input in which every result that carried no flag is the input's result.
C30_BackfillTouchesOnlyFlagged ==
  \A k \in 1..Len(backfillLog) :
    LET e == backfillLog[k]
    IN /\ Len(e.after) = Len(e.before)
       /\ \A i \in 1..Len(e.before) :
            /\ e.after[i].itemId = e.before[i].itemId
            /\ e.after[i].label = e.before[i].label
            /\ ~e.before[i].needsLLMReasoning => e.after[i] = e.before[i]

\* C24: while a handleIntentCaptured call awaits labelData the step stays
\* "processing" and no second call starts: at most one run is in flight.
C24_OneRunInFlight ==
  /\ Len(runs) <= 1
  /\ Len(runs) = 1 => currentStep = "processing"

\* C25: after every completed Session Store operation the ids of the metadata list
\* are the ids that have a stored record.
C25_IndexMatchesRecords ==
  {storedSessions[i].id : i \in 1..Len(storedSessions)} = RecordIds(storedRecords)

\* Two sessions were created and one of them has just been deleted; the other is
\* still stored and listed.
C25_Witness ==
  /\ OnExisting({"deleteSession"})
  /\ storeCreates = 2
  /\ RecordIds(storedRecords) # {}
  /\ Len(storedSessions) = 1

\* The results persisted for the current project of the DataLabeler.
Persisted ==
  IF currentProjectId = "" THEN <<>> ELSE storedRecords[currentProjectId].results

\* Whether the edits of a log are on distinct items.
DistinctItems(log) == \A j, k \in 1..Len(log) : log[j].itemId = log[k].itemId => j = k

\* Whether the row of an edit holds the edit in a result list.
HoldsEdit(rs, e) ==
  /\ e.row <= Len(rs)
  /\ rs[e.row].itemId = e.itemId
  /\ rs[e.row].label = e.newLabel
  /\ ~rs[e.row].needsReview
  /\ rs[e.row].confidence = 100

\* C26: in the labelling flow the persisted results of the current session reflect
\* every label edit made on distinct items, not only the latest.
C26_EditsAccumulate ==
  DistinctItems(editLog) => \A k \in 1..Len(editLog) : HoldsEdit(Persisted, editLog[k])

\* Whether the results of the item of an edit other than the edited row have the
\* label, confidence and needsReview they had before.
OthersKept(before, after, e) ==
  /\ Len(after) = Len(before)
  /\ \A j \in 1..Len(before) :
       j # e.row /\ before[j].itemId = e.itemId =>
         /\ after[j].label = before[j].label
         /\ after[j].confidence = before[j].confidence
         /\ after[j].needsReview = before[j].needsReview

\* C27: a label edit changes only the edited result: the item's other results keep
\* label, confidence and needsReview in the results persisted by the DataLabeler
\* and by the ProjectViewer, and in the results of the hook.
C27_EditChangesOnlyItsResult ==
  /\ Len(editLog) > 0 =>
       LET e == editLog[Len(editLog)]
       IN /\ OthersKept(e.storedBefore, Persisted, e)
          /\ OthersKept(e.hookBefore, hookResults.results, e)
  /\ Len(viewerLog) > 0 =>
       LET e == viewerLog[Len(viewerLog)]
       IN OthersKept(e.storedBefore, currentProject.results, e)

\* C28: after every label edit of the labelling flow the results of the hook, which
\* exportToCsv exports, and the results persisted for the current session agree on
\* the label, confidence and needsReview of every result.
C28_HookAgreesWithPersisted ==
  Len(editLog) > 0 /\ currentProjectId # "" =>
    /\ Len(hookResults.results) = Len(Persisted)
    /\ \A j \in 1..Len(Persisted) :
         /\ hookResults.results[j].label = Persisted[j].label
         /\ hookResults.results[j].confidence = Persisted[j].confidence
         /\ hookResults.results[j].needsReview = Persisted[j].needsReview

====
